---- MODULE Spec2Model ----
(***************************************************************************)
(* SyncGuard: a two-node active/passive failover controller for a          *)
(* CometBFT validator.  The module models                                  *)
(*   - the failover supervisor (FailoverManager) of each node: the health  *)
(*     loop, initiateFailover, considerFailback / initiateFailback and the *)
(*     state-sync loop;                                                    *)
(*   - the peer server handlers (validator_key, validator_state,           *)
(*     failover_notify, failback_notify);                                  *)
(*   - the state store (lock file, CompareStates, SyncFromRemote);         *)
(*   - the key store (DeleteKey, KeyFromBytes);                            *)
(*   - the signature ledger (DoubleSignProtector).                         *)
(* Each goroutine's position is a program counter; a step that the code    *)
(* runs under FailoverManager.mu is enabled only while no other goroutine  *)
(* of the node holds that mutex.                                           *)
(***************************************************************************)
EXTENDS Integers, FiniteSets, Sequences, TLC

\* ------------------------------------------------------------------ bounds

\* Highest height the validator signs in the protocol model.
MaxSignHeight == 1

\* Number of faults injected in one run of the protocol model.
MaxFaults == 1

\* Domain of the consensus states drawn for the State Store functions.
MaxHeight == 2
MaxRound == 1
MaxStep == 3

\* Number of state.Manager values opened on one state path.
ManagersPerPath == 3

\* Domain of the signature ledger model.
LedgerMaxHeight == 3
LedgerMaxRound == 0
LedgerMaxStep == 2

\* double_sign.go keeps maxRecords = 10000 records and prunes the heights
\* more than 1000 below the last signed one; the ledger model scales both.
maxRecords == 4
RetentionWindow == 1

\* Peer counts and min_peers settings drawn for the health checker.
MaxPeers == 2

\* Child processes one BinaryManager spawns in a run.
MaxChildren == 3

\* Clock of the request model, in seconds, and the age (milliseconds) after
\* which VerifyTimedSignature takes a timestamp as stale.
MaxClock == 1
TimeoutMs == 500

\* ---------------------------------------------------------------- constants

\* config.go: failover.retry_attempts default.
RetryAttempts == 3

\* The two nodes of the pair.  "A" is the primary site and boots active,
\* "B" is the secondary site and boots passive.
Nodes == {"A", "B"}

Peer(n) == IF n = "A" THEN "B" ELSE "A"

isPrimarySite(n) == n = "A"

BootActive(n) == n = "A"

VARIABLES
    \* FailoverManager fields
    isActive,            \* fm.isActive
    failureCount,        \* fm.failureCount
    failbackInProgress,  \* fm.failbackInProgress
    \* health.Checker: the cached result read by IsHealthy()
    lastHealthy,
    \* state.Manager
    lockFile,            \* m.lockFile # nil: the node holds <statePath>.lock
    stateFile,           \* priv_validator_state.json: [height, round, step]
    \* state.KeyManager: files on disk
    keyFile,             \* priv_validator_key.json: "real" | "mock"
    realKeyFile,         \* priv_validator_key.json.real: "none" | "real" | "mock"
    \* node.Manager: the key the running validator process has loaded
    valKey,              \* "real" | "mock" | "none" (no process running)
    \* goroutine positions
    hpc,                 \* health loop (monitorHealth / initiateFailover)
    fpc,                 \* considerFailback goroutine
    npc,                 \* server handler of an inbound notify
    reply,               \* status of the last reply the handler wrote
    spc,                 \* state-sync loop
    \* history: consecutive not-ok probes, all taken while Active
    activeStreak,
    \* history: SyncFromRemote succeeded inside the running transition
    compared,
    \* history: a probe taken during the running grace period was not ok
    probeFailedInGrace,
    \* number of injected faults so far (lost request, I/O error, failed
    \* restart, client timeout)
    faults,
    \* state.Manager used on its own: priv_validator_state.json and the last
    \* call made (history)
    diskState,
    lastCall,
    \* state.DoubleSignProtector
    signedRecords,       \* dsp.signedRecords: one record per "h:r:s" key
    lastSignedBlock,     \* dsp.lastSignedBlock
    lastAttempt,         \* history: the last CanSign / RecordSignature call
    \* several state.Manager values sharing state paths
    lockPathExists,      \* per state path: <statePath>.lock exists
    mLockFile,           \* per Manager: m.lockFile # nil
    lastLockCall,        \* history: the last AcquireLock / ReleaseLock call
    \* server: the POST request a node's handler serves (history)
    lastRequest,
    \* state.KeyManager used on its own: priv_validator_key.json and the
    \* last import call made (history)
    kmKeyFile,
    lastImport,
    \* state.KeyManager, the key swap on its own: priv_validator_key.json,
    \* priv_validator_key.json.real and the last two calls made (history)
    swapKeyFile,
    swapRealKeyFile,
    lastKeyCall,
    prevKeyCall,
    \* shutdown
    stopCh,              \* fm.stopCh per node: "open" | "closed"
    lastStop,            \* history: how the last fm.Stop() ended
    dspStopCh,           \* dsp.stopCh: "open" | "closed"
    lastDspStop,         \* history: how the last dsp.Stop() ended
    \* health.Checker used on its own
    minPeers,            \* c.cfg.Health.MinPeers
    lastHealth,          \* c.lastHealth
    lastProbe,           \* history: the last PerformHealthCheck call
    \* crypto.VerifyTimedSignature on its own
    lastVerify,          \* history: the last VerifyTimedSignature call
    \* node.BinaryManager on its own
    bmRunning,           \* m.running
    bmCmd,               \* m.cmd: 0 is nil, else the child the Cmd stands for
    proc,                \* each child: "unborn" | "unstarted" | "alive" | "exited"
    mon,                 \* the monitor goroutine spawned with each child
    rpc,                 \* position of a Restart call: "idle" | "sleep"
    bmPanic,             \* a goroutine dereferenced a nil m.cmd
    \* state.Manager.SyncFromRemote called by two goroutines
    raceFile,            \* priv_validator_state.json
    syncCall             \* each caller's SyncFromRemote call in progress

protoVars == <<isActive, failureCount, failbackInProgress, lastHealthy,
               lockFile, stateFile, keyFile, realKeyFile, valKey,
               hpc, fpc, npc, reply, spc, activeStreak,
               compared, probeFailedInGrace, faults>>

storeVars == <<diskState, lastCall>>

ledgerVars == <<signedRecords, lastSignedBlock, lastAttempt>>

lockVars == <<lockPathExists, mLockFile, lastLockCall>>

authVars == <<lastRequest>>

importVars == <<kmKeyFile, lastImport>>

swapVars == <<swapKeyFile, swapRealKeyFile, lastKeyCall, prevKeyCall>>

stopVars == <<stopCh, lastStop, dspStopCh, lastDspStop>>

healthVars == <<minPeers, lastHealth, lastProbe>>

verifyVars == <<lastVerify>>

binVars == <<bmRunning, bmCmd, proc, mon, rpc, bmPanic>>

raceVars == <<raceFile, syncCall>>

unitVars == <<swapVars, stopVars, healthVars, verifyVars, binVars, raceVars>>

vars == <<protoVars, storeVars, ledgerVars, lockVars, authVars, importVars,
          unitVars>>

\* -------------------------------------------------------- State Store (pure)

State(h, r, s) == [height |-> h, round |-> r, step |-> s]

\* CompareStates with the step test written > instead of >=.
CompareStates_AllowEqual(localState, remoteState) ==
    IF remoteState.height > localState.height
    THEN FALSE
    ELSE IF remoteState.height = localState.height
         THEN IF remoteState.round > localState.round
              THEN FALSE
              ELSE IF remoteState.round = localState.round
                   THEN IF remoteState.step > localState.step
                        THEN FALSE
                        ELSE TRUE
                   ELSE TRUE
         ELSE TRUE

\* manager.go CompareStates: is it safe for local to take over from remote.
CompareStates(localState, remoteState) ==
    IF remoteState.height > localState.height
    THEN FALSE
    ELSE IF remoteState.height = localState.height
         THEN IF remoteState.round > localState.round
              THEN FALSE
              ELSE IF remoteState.round = localState.round
                   THEN IF remoteState.step >= localState.step
                        THEN FALSE
                        ELSE TRUE
                   ELSE TRUE
         ELSE TRUE

\* shouldUpdate with the step test written > instead of >=.
shouldUpdate_StrictStep(localState, remoteState) ==
    IF remoteState.height > localState.height
    THEN TRUE
    ELSE IF remoteState.height = localState.height
         THEN IF remoteState.round > localState.round
              THEN TRUE
              ELSE IF remoteState.round = localState.round
                   THEN remoteState.step > localState.step
                   ELSE FALSE
         ELSE FALSE

\* manager.go SyncFromRemote, lines 207-219: the shouldUpdate decision.
shouldUpdate(localState, remoteState) ==
    IF remoteState.height > localState.height
    THEN TRUE
    ELSE IF remoteState.height = localState.height
         THEN IF remoteState.round > localState.round
              THEN TRUE
              ELSE IF remoteState.round = localState.round
                   THEN remoteState.step >= localState.step
                   ELSE FALSE
         ELSE FALSE

\* SyncFromRemote saving the remote state before it is compared.
SyncFromRemote_SaveFirst(fileState, remoteState, loadOk, saveOk) ==
    IF ~loadOk
    THEN [err |-> "load", file |-> fileState]
    ELSE IF ~saveOk
         THEN [err |-> "save", file |-> fileState]
         ELSE IF ~shouldUpdate(fileState, remoteState)
              THEN [err |-> "behind", file |-> remoteState]
              ELSE [err |-> "nil", file |-> remoteState]

\* manager.go SyncFromRemote: LoadState, the shouldUpdate decision, SaveState
\* (temp file + rename).  loadOk / saveOk are the outcomes of the file I/O.
\* The result is [err, file]: err is "nil", "load" (failed to load local
\* state), "behind" (remote state is behind local) or "save"; file is the
\* content of the state file after the call.
SyncFromRemote(fileState, remoteState, loadOk, saveOk) ==
    IF ~loadOk
    THEN [err |-> "load", file |-> fileState]
    ELSE IF ~shouldUpdate(fileState, remoteState)
         THEN [err |-> "behind", file |-> fileState]
         ELSE IF saveOk
              THEN [err |-> "nil", file |-> remoteState]
              ELSE [err |-> "save", file |-> fileState]

\* ---------------------------------------------------------- Key Store (pure)

\* DeleteKey overwriting the key file with the mock key without first
\* renaming it to the .real sidecar.
DeleteKey_NoSidecar(key, realKey, ok) ==
    IF ok
    THEN [err |-> "nil", key |-> "mock", realKey |-> realKey]
    ELSE [err |-> "io", key |-> key, realKey |-> realKey]

\* key.go DeleteKey: BackupKey, rename key -> key.real, write the mock key.
\* ok = FALSE is an I/O error (backup, rename or write): the rename is rolled
\* back and both files are as before.
DeleteKey(key, realKey, ok) ==
    IF ok
    THEN [err |-> "nil", key |-> "mock", realKey |-> key]
    ELSE [err |-> "io", key |-> key, realKey |-> realKey]

\* Mutant of RestoreKey: the sidecar is copied, not renamed.
RestoreKey_KeepSidecar(key, realKey, outcome) ==
    IF realKey # "none"
    THEN [err |-> "nil", key |-> realKey, realKey |-> realKey]
    ELSE [err |-> "nothing", key |-> key, realKey |-> realKey]

\* key.go RestoreKey: when <keyPath>.real exists, remove the key file and
\* rename the sidecar over it.  outcome "remove": os.Remove failed, nothing
\* changed; "rename": the key file is gone and the rename failed.  Without
\* the sidecar the fallback looks for <keyPath>.disabled, which no code
\* creates: "no disabled key to restore".
RestoreKey(key, realKey, outcome) ==
    IF realKey # "none"
    THEN CASE outcome = "nil" ->
                [err |-> "nil", key |-> realKey, realKey |-> "none"]
           [] outcome = "remove" ->
                [err |-> "remove", key |-> key, realKey |-> realKey]
           [] OTHER ->
                [err |-> "rename", key |-> "none", realKey |-> realKey]
    ELSE [err |-> "nothing", key |-> key, realKey |-> realKey]

\* binary.go Restart: Stop (always nil), sleep restartDelay, Start.  The
\* started process loads the key file.  ok = FALSE: cmd.Start failed, the
\* old process is gone and no new one runs.
Restart(key, ok) ==
    IF ok
    THEN [err |-> "nil", loaded |-> key]
    ELSE [err |-> "start", loaded |-> "none"]

\* ------------------------------------------------------ crypto (pure part)

\* The secret the cluster shares, and a secret it does not use.
ClusterSecret == "correct-secret"

Secrets == {ClusterSecret, "wrong-secret"}

\* A missing or empty X-Signature header.
NoSignature == <<>>

\* crypto.Sign: HMAC-SHA256 of data under secret, hex encoded.  The MAC is
\* taken as ideal: the tag determines the pair (data, secret).
Sign(data, secret) == <<data, secret>>

\* crypto.SignWithTimestamp: the payload is data followed by the timestamp.
SignWithTimestamp(data, secret, timestamp) ==
    Sign(<<data, timestamp>>, secret)

\* crypto.Verify: false on an empty argument, else the constant-time
\* comparison of the signature with Sign(data, secret).
Verify(data, signature, secret) ==
    IF data = <<>> \/ signature = NoSignature \/ secret = ""
    THEN FALSE
    ELSE signature = Sign(data, secret)

\* crypto.VerifyTimedSignature at time now (seconds): false when the
\* timestamp is older than timeoutMs, else Verify on data + timestamp.
VerifyTimedSignature(data, signature, secret, timestamp, timeout, now) ==
    IF (now - timestamp) * 1000 > timeout
    THEN FALSE
    ELSE Verify(<<data, timestamp>>, signature, secret)

\* Byte strings that travel as a key payload.  body is the plaintext
\* ("real" and "mock" are the JSON of the two keys, "junk" is not JSON);
\* sealed: the bytes are salt + nonce + AES-GCM ciphertext made under seal;
\* intact: no byte was changed since; short: fewer than SALT_SIZE + NONCE_SIZE
\* bytes are left.
KeyJSONs == {"real", "mock"}

Plaintexts == KeyJSONs \cup {"junk"}

Raw(d) == [body |-> d, sealed |-> FALSE, seal |-> "", intact |-> TRUE,
           short |-> FALSE]

Tamper(c) == [c EXCEPT !.intact = FALSE]

Truncate(c) == [c EXCEPT !.intact = FALSE, !.short = TRUE]

\* crypto.Encrypt: HKDF key from secret and a fresh salt, AES-GCM Seal
\* under a fresh nonce; the result is salt + nonce + ciphertext.
Encrypt(data, secret) ==
    [body |-> data.body, sealed |-> TRUE, seal |-> secret, intact |-> TRUE,
     short |-> FALSE]

\* crypto.Decrypt: slices salt and nonce off the input without a
\* length check (a shorter input panics: slice bounds out of range), derives
\* the key and calls AES-GCM Open, which fails unless the bytes are an
\* unchanged ciphertext made under the same secret.
Decrypt(data, secret) ==
    IF data.short
    THEN [err |-> "panic", plain |-> Raw("junk")]
    ELSE IF data.sealed /\ data.intact /\ data.seal = secret
         THEN [err |-> "nil", plain |-> Raw(data.body)]
         ELSE [err |-> "open", plain |-> Raw("junk")]

\* json.Unmarshal(data, &key) succeeds.
Unmarshals(data) ==
    ~data.sealed /\ data.intact /\ ~data.short /\ data.body \in KeyJSONs

\* key.go SaveKey: write <keyPath>.tmp, rename it over the key file.
\* ok = FALSE: the write or the rename failed; the key file is as before.
SaveKey(key, new, ok) ==
    IF ok THEN [err |-> "nil", key |-> new] ELSE [err |-> "io", key |-> key]

\* key.go KeyFromBytes: json.Unmarshal, then SaveKey.
KeyFromBytes(key, data, ok) ==
    IF ~Unmarshals(data)
    THEN [err |-> "invalid", key |-> key]
    ELSE SaveKey(key, data.body, ok)

\* key.go DecryptKeyFromBytes: crypto.Decrypt, then KeyFromBytes on the
\* plaintext.
DecryptKeyFromBytes(key, data, secret, ok) ==
    LET d == Decrypt(data, secret)
    IN IF d.err # "nil"
       THEN [err |-> d.err, key |-> key]
       ELSE KeyFromBytes(key, d.plain, ok)

\* ------------------------------------------------- health checker (pure)

\* What a CometBFT RPC call can come back with: no answer at all, or an
\* answer with a status code and a body that is JSON or not.
TransportError == [kind |-> "transport", status |-> 0, json |-> FALSE,
                   catching_up |-> FALSE, n_peers |-> 0]

HttpReply(status, json, catchingUp, nPeers) ==
    [kind |-> "http", status |-> status, json |-> json,
     catching_up |-> catchingUp, n_peers |-> nPeers]

StatusCodes == {200, 201, 500}

\* checker.go NewChecker: lastHealth is nil.
NilHealth == [set |-> FALSE, Healthy |-> FALSE, IsSyncing |-> FALSE,
              PeerCount |-> 0]

\* checker.go CheckStatus: an error on a failed GET, a status other than
\* 200, an unreadable or unparsable body; else healthy = !catching_up.
CheckStatus(resp) ==
    IF resp.kind = "transport" \/ resp.status # 200 \/ ~resp.json
    THEN [err |-> "error", healthy |-> FALSE, isSyncing |-> FALSE]
    ELSE [err |-> "nil", healthy |-> ~resp.catching_up,
          isSyncing |-> resp.catching_up]

\* checker.go CheckPeerCount: the same errors; else n_peers.
CheckPeerCount(resp) ==
    IF resp.kind = "transport" \/ resp.status # 200 \/ ~resp.json
    THEN [err |-> "error", peers |-> 0]
    ELSE [err |-> "nil", peers |-> resp.n_peers]

\* checker.go PerformHealthCheck: a CheckStatus error gives Healthy = false,
\* a CheckPeerCount error leaves PeerCount 0; the result is cached and the
\* error returned is always nil.
PerformHealthCheck(status, netInfo) ==
    LET st == CheckStatus(status)
        pc == CheckPeerCount(netInfo)
    IN [err |-> "nil",
        health |-> [set |-> TRUE,
                    Healthy |-> IF st.err # "nil" THEN FALSE ELSE st.healthy,
                    IsSyncing |-> IF st.err # "nil" THEN FALSE
                                  ELSE st.isSyncing,
                    PeerCount |-> IF pc.err # "nil" THEN 0 ELSE pc.peers]]

\* Mutant of IsHealthy: the peer count is not looked at.
IsHealthy_NoPeers(health, min) ==
    IF ~health.set THEN FALSE ELSE health.Healthy /\ ~health.IsSyncing

\* checker.go IsHealthy: false without a cached probe; MinPeers 0 is taken
\* as 1.
IsHealthy(health, min) ==
    IF ~health.set
    THEN FALSE
    ELSE LET m == IF min = 0 THEN 1 ELSE min
         IN health.Healthy /\ ~health.IsSyncing /\ health.PeerCount >= m

\* ------------------------------------------------------------ mutex fm.mu

\* Positions of initiateFailover that run under fm.mu.Lock().
FailoverLocked == {"fo_transfer", "fo_delete", "fo_restart", "fo_release",
                   "fo_notify", "fo_wait"}

\* Positions of initiateFailback that run under fm.mu.Lock().
\* "fb_hung" is inside an http.Get that never returns.
FailbackLocked == {"fb_reqkey", "fb_lock", "fb_sync", "fb_restart",
                   "fb_notify", "fb_wait", "fb_hung"}

MuHeld(n) == hpc[n] \in FailoverLocked \/ fpc[n] \in FailbackLocked

\* ------------------------------------------------------------------- Init

InitState == State(0, 0, 1)

\* failover.go NewFailoverManager and Start: the role comes from the
\* configuration, no lock is taken, no goroutine has moved yet.
Boot ==
    /\ isActive = [n \in Nodes |-> BootActive(n)]
    /\ failureCount = [n \in Nodes |-> 0]
    /\ failbackInProgress = [n \in Nodes |-> FALSE]
    /\ lockFile = [n \in Nodes |-> FALSE]
    /\ stateFile = [n \in Nodes |-> InitState]
    /\ keyFile = [n \in Nodes |-> IF BootActive(n) THEN "real" ELSE "mock"]
    /\ realKeyFile = [n \in Nodes |-> "none"]
    /\ valKey = [n \in Nodes |-> IF BootActive(n) THEN "real" ELSE "mock"]
    /\ hpc = [n \in Nodes |-> "idle"]
    /\ fpc = [n \in Nodes |-> "none"]
    /\ npc = [n \in Nodes |-> "idle"]
    /\ reply = [n \in Nodes |-> "none"]
    /\ probeFailedInGrace = [n \in Nodes |-> FALSE]
    /\ spc = [n \in Nodes |-> "idle"]
    /\ activeStreak = [n \in Nodes |-> 0]
    /\ compared = [n \in Nodes |-> FALSE]
    /\ faults = 0

\* health.Checker before its first probe: lastHealth is nil, IsHealthy()
\* is false.
ProtoInit ==
    /\ Boot
    /\ lastHealthy = [n \in Nodes |-> FALSE]

\* The State Store and the ledger at rest, as the protocol model leaves them.
NoCall == [op |-> "none", local |-> InitState, remote |-> InitState,
           loadOk |-> TRUE, saveOk |-> TRUE, err |-> "nil", ret |-> FALSE]

StoreIdle ==
    /\ diskState = InitState
    /\ lastCall = NoCall

NoAttempt == [op |-> "none", height |-> 0, round |-> 0, step |-> 1,
              err |-> "nil", flip |-> FALSE]

\* double_sign.go NewDoubleSignProtector: an empty map, lastSignedBlock 0.
NewDoubleSignProtector ==
    /\ signedRecords = {}
    /\ lastSignedBlock = 0
    /\ lastAttempt = NoAttempt

\* The state paths and the Managers opened on them (NewManager(statePath)).
StatePaths == {"p", "q"}

Managers == StatePaths \X (1 .. ManagersPerPath)

statePath(m) == m[1]

NoLockCall == [op |-> "none", mgr |-> <<"p", 1>>, err |-> "nil",
               existed |-> FALSE, holder |-> FALSE]

\* server.go NewServer: no request served yet.
NoRequest == [node |-> "A", path |-> "", signature |-> NoSignature,
              timestamp |-> 0, receivedAt |-> 0]

NoRequests == lastRequest = NoRequest

NoImport == [op |-> "none", data |-> Raw("junk"), secret |-> "",
             err |-> "nil"]

\* A KeyManager of a passive node: the key file holds the mock key.
ImportIdle ==
    /\ kmKeyFile = "mock"
    /\ lastImport = NoImport

NoKeyCall == [op |-> "none", err |-> "nil", before |-> "none"]

\* key.go NewKeyManager on the mock key, without a sidecar.
SwapIdle ==
    /\ swapKeyFile = "mock"
    /\ swapRealKeyFile = "none"
    /\ lastKeyCall = NoKeyCall
    /\ prevKeyCall = NoKeyCall

\* NewFailoverManager, NewDoubleSignProtector: stopCh made, not closed.
Running ==
    /\ stopCh = [n \in Nodes |-> "open"]
    /\ lastStop = [n \in Nodes |-> "none"]
    /\ dspStopCh = "open"
    /\ lastDspStop = "none"

NoProbe == [status |-> TransportError, netInfo |-> TransportError,
            err |-> "none"]

\* checker.go NewChecker with the default min_peers.
CheckerIdle ==
    /\ minPeers = 1
    /\ lastHealth = NilHealth
    /\ lastProbe = NoProbe

NoVerify == [called |-> FALSE, data |-> <<>>, signature |-> NoSignature,
             secret |-> "", timestamp |-> 0, now |-> 0, ret |-> FALSE]

\* No VerifyTimedSignature call yet.
VerifyIdle == lastVerify = NoVerify

Children == 1..MaxChildren

NoMonitor == [pc |-> "none", cmd |-> 0]

\* binary.go NewBinaryManager: no Cmd, not running.
NewBinaryManager ==
    /\ bmRunning = FALSE
    /\ bmCmd = 0
    /\ proc = [c \in Children |-> "unborn"]
    /\ mon = [c \in Children |-> NoMonitor]
    /\ rpc = "idle"
    /\ bmPanic = FALSE

\* The goroutines of one node that call stateManager.SyncFromRemote: the
\* state-sync loop and initiateFailback.
Callers == {"syncValidatorState", "initiateFailback"}

NoSyncCall == [pc |-> "idle", local |-> InitState, remote |-> InitState]

\* No SyncFromRemote call is in progress.
RaceIdle ==
    /\ raceFile = InitState
    /\ syncCall = [c \in Callers |-> NoSyncCall]

UnitsIdle ==
    /\ SwapIdle /\ Running /\ CheckerIdle /\ VerifyIdle
    /\ NewBinaryManager /\ RaceIdle

\* manager.go NewManager: lockFile is nil; no lock file on disk.
LocksFree ==
    /\ lockPathExists = [path \in StatePaths |-> FALSE]
    /\ mLockFile = [m \in Managers |-> FALSE]
    /\ lastLockCall = NoLockCall

\* --------------------------------------------- signature ledger (pure part)

\* double_sign.go isValidStepProgression.
isValidStepProgression(oldStep, newStep) == newStep > oldStep

\* CanSign without the test of the height against lastSignedBlock.
CanSign_NoHeightCheck(records, last, height, round, step) ==
    IF State(height, round, step) \in records
    THEN "already_signed"
    ELSE IF \E record \in records :
               /\ record.height = height
               /\ record.round = round
               /\ record.step # step
               /\ ~isValidStepProgression(record.step, step)
         THEN "invalid_step"
         ELSE "nil"

\* double_sign.go CanSign: the error it returns ("nil" when signing is
\* allowed).  A record stands for its map key "h:r:s".
CanSign(records, last, height, round, step) ==
    IF State(height, round, step) \in records
    THEN "already_signed"
    ELSE IF height < last
         THEN "height_regression"
         ELSE IF \E record \in records :
                    /\ record.height = height
                    /\ record.round = round
                    /\ record.step # step
                    /\ ~isValidStepProgression(record.step, step)
              THEN "invalid_step"
              ELSE "nil"

\* double_sign.go pruneOldRecordsLocked: nothing at or below half of
\* maxRecords; else drop the records below lastSignedBlock - window.
pruneOldRecordsLocked(records, last) ==
    IF Cardinality(records) <= maxRecords \div 2
    THEN records
    ELSE LET minHeight == IF last - RetentionWindow < 0
                          THEN 0
                          ELSE last - RetentionWindow
         IN {record \in records : ~(record.height < minHeight)}

\* double_sign.go RecordSignature: only an exact duplicate of the key is
\* refused; the record is stored, lastSignedBlock raised, and the map pruned
\* when it outgrows maxRecords.
RecordSignature(records, last, height, round, step) ==
    IF State(height, round, step) \in records
    THEN [err |-> "already_recorded", records |-> records, last |-> last]
    ELSE LET added == records \cup {State(height, round, step)}
             newLast == IF height > last THEN height ELSE last
         IN [err |-> "nil",
             records |-> IF Cardinality(added) > maxRecords
                         THEN pruneOldRecordsLocked(added, newLast)
                         ELSE added,
             last |-> newLast]

\* ------------------------------------------------------ State Store (lock)

\* AcquireLock opening the lock file without O_EXCL.
AcquireLock_NoExcl(held) == [err |-> "nil", held |-> TRUE]

\* manager.go AcquireLock: O_CREATE|O_EXCL on <statePath>.lock; held is
\* whether the lock file exists.
AcquireLock(held) ==
    IF held
    THEN [err |-> "locked", held |-> held]
    ELSE [err |-> "nil", held |-> TRUE]

\* manager.go ReleaseLock: a no-op when m.lockFile is nil, else close+remove.
ReleaseLock(held) == FALSE

Min(a, b) == IF a < b THEN a ELSE b

\* A step whose outcome ok = FALSE is an injected fault.
Charge(ok) == faults' = IF ok THEN faults ELSE faults + 1

Outcomes == IF faults < MaxFaults THEN BOOLEAN ELSE {TRUE}

\* ------------------------------------------------------------- health loop

\* handleHealthCheckSuccess without the isPrimarySite test: either site
\* spawns considerFailback when passive.
handleHealthCheckSuccess_AnySite(n) ==
    /\ failureCount' = [failureCount EXCEPT ![n] = 0]
    /\ IF ~isActive[n] /\ ~failbackInProgress[n]
       THEN /\ failbackInProgress' = [failbackInProgress EXCEPT ![n] = TRUE]
            /\ fpc' = [fpc EXCEPT ![n] = "grace"]
       ELSE UNCHANGED <<failbackInProgress, fpc>>
    /\ hpc' = [hpc EXCEPT ![n] = "idle"]

\* failover.go handleHealthCheckSuccess: reset the counter; on the primary
\* site, when passive and no failback is in flight, set failbackInProgress
\* and spawn considerFailback (which re-reads isActive and then sleeps).
handleHealthCheckSuccess(n) ==
    /\ failureCount' = [failureCount EXCEPT ![n] = 0]
    /\ IF isPrimarySite(n) /\ ~isActive[n] /\ ~failbackInProgress[n]
       THEN /\ failbackInProgress' = [failbackInProgress EXCEPT ![n] = TRUE]
            /\ fpc' = [fpc EXCEPT ![n] = "grace"]
       ELSE UNCHANGED <<failbackInProgress, fpc>>
    /\ hpc' = [hpc EXCEPT ![n] = "idle"]

\* failover.go handleHealthCheckFailure: count the failure; at the threshold,
\* if active, call initiateFailover, which takes fm.mu and goes on while the
\* node is active.  The counter is only ever compared with RetryAttempts, so
\* it is kept saturated at that value.
handleHealthCheckFailure(n) ==
    /\ LET c == Min(failureCount[n] + 1, RetryAttempts)
       IN /\ failureCount' = [failureCount EXCEPT ![n] = c]
          /\ hpc' = [hpc EXCEPT ![n] =
                IF c >= RetryAttempts /\ isActive[n]
                THEN "fo_transfer" ELSE "idle"]
    /\ UNCHANGED <<failbackInProgress, fpc>>

\* failover.go performHealthCheck: Checker.PerformHealthCheck caches the probe
\* verdict ok (read later by IsHealthy), then the verdict is handled.  The
\* handlers start with fm.mu.Lock(): while initiateFailback holds the mutex
\* the loop waits with the verdict in hand.
performHealthCheck(n, ok) ==
    /\ hpc[n] = "idle"
    /\ lastHealthy' = [lastHealthy EXCEPT ![n] = ok]
    /\ activeStreak' = [activeStreak EXCEPT ![n] =
            IF ok \/ ~isActive[n] THEN 0 ELSE Min(@ + 1, RetryAttempts)]
    /\ IF MuHeld(n)
       THEN /\ hpc' = [hpc EXCEPT ![n] = IF ok THEN "success" ELSE "failure"]
            /\ UNCHANGED <<failureCount, failbackInProgress, fpc>>
       ELSE IF ok
            THEN handleHealthCheckSuccess(n)
            ELSE handleHealthCheckFailure(n)
    /\ UNCHANGED <<isActive, lockFile, stateFile, keyFile, realKeyFile,
                   valKey, npc, spc, compared, faults>>
    /\ probeFailedInGrace' = [probeFailedInGrace EXCEPT ![n] =
            @ \/ (fpc[n] = "grace" /\ ~ok)]
    /\ UNCHANGED <<storeVars, ledgerVars, lockVars, authVars, importVars, unitVars, reply>>

\* performHealthCheck, resumed once fm.mu is free.
performHealthCheckResume(n) ==
    /\ hpc[n] \in {"success", "failure"}
    /\ ~MuHeld(n)
    /\ IF hpc[n] = "success"
       THEN handleHealthCheckSuccess(n)
       ELSE handleHealthCheckFailure(n)
    /\ UNCHANGED <<isActive, lastHealthy, lockFile, stateFile, keyFile,
                   realKeyFile, valKey, npc, spc, activeStreak, compared,
                   faults>>
    /\ UNCHANGED <<storeVars, ledgerVars, lockVars, authVars, importVars, unitVars, reply,
                   probeFailedInGrace>>

\* ------------------------------------------------------- initiateFailover

\* failover.go transferKeyToPeer + server handleValidatorKey (POST): the peer
\* installs the sender's key file with KeyFromBytes.  ok = FALSE is a
\* transport failure; the failover continues either way.
transferKeyToPeer(n, ok) ==
    /\ hpc[n] = "fo_transfer"
    /\ keyFile' = IF ok
                  THEN [keyFile EXCEPT ![Peer(n)] = keyFile[n]]
                  ELSE keyFile
    /\ hpc' = [hpc EXCEPT ![n] = "fo_delete"]
    /\ Charge(ok)
    /\ UNCHANGED <<isActive, failureCount, failbackInProgress, lastHealthy,
                   lockFile, stateFile, realKeyFile, valKey, fpc, npc, spc,
                   activeStreak, compared>>
    /\ UNCHANGED <<storeVars, ledgerVars, lockVars, authVars, importVars, unitVars, reply,
                   probeFailedInGrace>>

\* initiateFailover: keyManager.DeleteKey(); an error is only logged.
FailoverDeleteKey(n, ok) ==
    /\ hpc[n] = "fo_delete"
    /\ LET d == DeleteKey(keyFile[n], realKeyFile[n], ok)
       IN /\ keyFile' = [keyFile EXCEPT ![n] = d.key]
          /\ realKeyFile' = [realKeyFile EXCEPT ![n] = d.realKey]
    /\ hpc' = [hpc EXCEPT ![n] = "fo_restart"]
    /\ Charge(ok)
    /\ UNCHANGED <<isActive, failureCount, failbackInProgress, lastHealthy,
                   lockFile, stateFile, valKey, fpc, npc, spc, activeStreak,
                   compared>>
    /\ UNCHANGED <<storeVars, ledgerVars, lockVars, authVars, importVars, unitVars, reply,
                   probeFailedInGrace>>

\* initiateFailover: nodeManager.Restart(); an error is only logged.
FailoverRestart(n, ok) ==
    /\ hpc[n] = "fo_restart"
    /\ valKey' = [valKey EXCEPT ![n] = Restart(keyFile[n], ok).loaded]
    /\ hpc' = [hpc EXCEPT ![n] = "fo_release"]
    /\ Charge(ok)
    /\ UNCHANGED <<isActive, failureCount, failbackInProgress, lastHealthy,
                   lockFile, stateFile, keyFile, realKeyFile, fpc, npc, spc,
                   activeStreak, compared>>
    /\ UNCHANGED <<storeVars, ledgerVars, lockVars, authVars, importVars, unitVars, reply,
                   probeFailedInGrace>>

\* initiateFailover: stateManager.ReleaseLock().
FailoverReleaseLock(n) ==
    /\ hpc[n] = "fo_release"
    /\ lockFile' = [lockFile EXCEPT ![n] = ReleaseLock(@)]
    /\ hpc' = [hpc EXCEPT ![n] = "fo_notify"]
    /\ UNCHANGED <<isActive, failureCount, failbackInProgress, lastHealthy,
                   stateFile, keyFile, realKeyFile, valKey, fpc, npc, spc,
                   activeStreak, compared, faults>>
    /\ UNCHANGED <<storeVars, ledgerVars, lockVars, authVars, importVars, unitVars, reply,
                   probeFailedInGrace>>

\* failover.go notifyPeerOfFailover: POST /failover_notify with a 5 s client
\* timeout.  A delivered request starts the peer's handler (a request that
\* finds the peer's server still busy with an earlier notify is not served).
notifyPeerOfFailover(n, ok) ==
    /\ hpc[n] = "fo_notify"
    /\ IF ok /\ npc[Peer(n)] = "idle"
       THEN npc' = [npc EXCEPT ![Peer(n)] = "fn_check"]
       ELSE UNCHANGED npc
    /\ hpc' = [hpc EXCEPT ![n] = "fo_wait"]
    /\ Charge(ok)
    /\ UNCHANGED <<isActive, failureCount, failbackInProgress, lastHealthy,
                   lockFile, stateFile, keyFile, realKeyFile, valKey, fpc,
                   spc, activeStreak, compared>>
    /\ UNCHANGED <<storeVars, ledgerVars, lockVars, authVars, importVars, unitVars, reply,
                   probeFailedInGrace>>

\* initiateFailover, after client.Do returned: with the peer's reply
\* (ok), or on the client timeout while the peer's handler still runs:
\* fm.isActive = false; fm.failureCount = 0; unlock.
FailoverFinish(n, ok) ==
    /\ hpc[n] = "fo_wait"
    /\ ok <=> npc[Peer(n)] = "idle"
    /\ isActive' = [isActive EXCEPT ![n] = FALSE]
    /\ failureCount' = [failureCount EXCEPT ![n] = 0]
    /\ hpc' = [hpc EXCEPT ![n] = "idle"]
    /\ Charge(ok)
    /\ UNCHANGED <<failbackInProgress, lastHealthy, lockFile, stateFile,
                   keyFile, realKeyFile, valKey, fpc, npc, spc, activeStreak,
                   compared>>
    /\ UNCHANGED <<storeVars, ledgerVars, lockVars, authVars, importVars, unitVars, reply,
                   probeFailedInGrace>>

\* ------------------------------------- considerFailback / initiateFailback

\* considerFailback without the deferred function: the goroutine returns
\* from an abandoned attempt and leaves failbackInProgress set.
considerFailback_NoDefer(n) ==
    /\ fpc[n] = "grace"
    /\ ~MuHeld(n)
    /\ IF lastHealthy[n] /\ ~isActive[n]
       THEN fpc' = [fpc EXCEPT ![n] = "fb_reqkey"]
       ELSE fpc' = [fpc EXCEPT ![n] = "none"]
    /\ compared' = [compared EXCEPT ![n] = FALSE]
    /\ UNCHANGED <<isActive, failureCount, failbackInProgress, lastHealthy,
                   lockFile, stateFile, keyFile, realKeyFile, valKey, hpc,
                   npc, spc, activeStreak, faults>>
    /\ probeFailedInGrace' = [probeFailedInGrace EXCEPT ![n] = FALSE]
    /\ UNCHANGED <<storeVars, ledgerVars, lockVars, authVars, importVars, unitVars, reply>>

\* failover.go considerFailback after time.Sleep(GracePeriod): when
\* IsHealthy(), initiateFailback takes fm.mu and goes on while the node is
\* passive; on every other path the deferred function clears
\* failbackInProgress.
considerFailback(n) ==
    /\ fpc[n] = "grace"
    /\ ~MuHeld(n)
    /\ IF lastHealthy[n] /\ ~isActive[n]
       THEN /\ fpc' = [fpc EXCEPT ![n] = "fb_reqkey"]
            /\ UNCHANGED failbackInProgress
       ELSE /\ fpc' = [fpc EXCEPT ![n] = "none"]
            /\ failbackInProgress' = [failbackInProgress EXCEPT ![n] = FALSE]
    /\ compared' = [compared EXCEPT ![n] = FALSE]
    /\ UNCHANGED <<isActive, failureCount, lastHealthy, lockFile, stateFile,
                   keyFile, realKeyFile, valKey, hpc, npc, spc, activeStreak,
                   faults>>
    /\ probeFailedInGrace' = [probeFailedInGrace EXCEPT ![n] = FALSE]
    /\ UNCHANGED <<storeVars, ledgerVars, lockVars, authVars, importVars, unitVars, reply>>

\* failover.go requestKeyFromPeer + server handleValidatorKey (GET): the peer
\* answers with its key file (KeyToBytes), installed here by KeyFromBytes.
\* ok = FALSE (transport error, non-200): initiateFailback returns.
requestKeyFromPeer(n, ok) ==
    /\ fpc[n] = "fb_reqkey"
    /\ IF ok
       THEN /\ keyFile' = [keyFile EXCEPT ![n] = keyFile[Peer(n)]]
            /\ fpc' = [fpc EXCEPT ![n] = "fb_lock"]
            /\ UNCHANGED failbackInProgress
       ELSE /\ fpc' = [fpc EXCEPT ![n] = "none"]
            /\ failbackInProgress' = [failbackInProgress EXCEPT ![n] = FALSE]
            /\ UNCHANGED keyFile
    /\ Charge(ok)
    /\ UNCHANGED <<isActive, failureCount, lastHealthy, lockFile, stateFile,
                   realKeyFile, valKey, hpc, npc, spc, activeStreak,
                   compared>>
    /\ UNCHANGED <<storeVars, ledgerVars, lockVars, authVars, importVars, unitVars, reply,
                   probeFailedInGrace>>

\* initiateFailback: stateManager.AcquireLock(); return on error.
FailbackAcquireLock(n) ==
    /\ fpc[n] = "fb_lock"
    /\ LET a == AcquireLock(lockFile[n])
       IN /\ lockFile' = [lockFile EXCEPT ![n] = a.held]
          /\ IF a.err = "nil"
             THEN /\ fpc' = [fpc EXCEPT ![n] = "fb_sync"]
                  /\ UNCHANGED failbackInProgress
             ELSE /\ fpc' = [fpc EXCEPT ![n] = "none"]
                  /\ failbackInProgress' =
                        [failbackInProgress EXCEPT ![n] = FALSE]
    /\ UNCHANGED <<isActive, failureCount, lastHealthy, stateFile, keyFile,
                   realKeyFile, valKey, hpc, npc, spc, activeStreak,
                   compared, faults>>
    /\ UNCHANGED <<storeVars, ledgerVars, lockVars, authVars, importVars, unitVars, reply,
                   probeFailedInGrace>>

\* initiateFailback: syncStateFromPeer() (GET /validator_state, then
\* SyncFromRemote); on error ReleaseLock and return.
FailbackSync(n, ok) ==
    /\ fpc[n] = "fb_sync"
    /\ LET r == SyncFromRemote(stateFile[n], stateFile[Peer(n)], TRUE, TRUE)
       IN IF ok /\ r.err = "nil"
          THEN /\ stateFile' = [stateFile EXCEPT ![n] = r.file]
               /\ compared' = [compared EXCEPT ![n] = TRUE]
               /\ fpc' = [fpc EXCEPT ![n] = "fb_restart"]
               /\ UNCHANGED <<lockFile, failbackInProgress>>
          ELSE /\ lockFile' = [lockFile EXCEPT ![n] = ReleaseLock(@)]
               /\ fpc' = [fpc EXCEPT ![n] = "none"]
               /\ failbackInProgress' =
                     [failbackInProgress EXCEPT ![n] = FALSE]
               /\ UNCHANGED <<stateFile, compared>>
    /\ Charge(ok)
    /\ UNCHANGED <<isActive, failureCount, lastHealthy, keyFile, realKeyFile,
                   valKey, hpc, npc, spc, activeStreak>>
    /\ UNCHANGED <<storeVars, ledgerVars, lockVars, authVars, importVars, unitVars, reply,
                   probeFailedInGrace>>

\* initiateFailback: nodeManager.Restart(); on error ReleaseLock and return.
FailbackRestart(n, ok) ==
    /\ fpc[n] = "fb_restart"
    /\ LET r == Restart(keyFile[n], ok)
       IN /\ valKey' = [valKey EXCEPT ![n] = r.loaded]
          /\ IF r.err = "nil"
             THEN /\ fpc' = [fpc EXCEPT ![n] = "fb_notify"]
                  /\ UNCHANGED <<lockFile, failbackInProgress>>
             ELSE /\ lockFile' = [lockFile EXCEPT ![n] = ReleaseLock(@)]
                  /\ fpc' = [fpc EXCEPT ![n] = "none"]
                  /\ failbackInProgress' =
                        [failbackInProgress EXCEPT ![n] = FALSE]
    /\ Charge(ok)
    /\ UNCHANGED <<isActive, failureCount, lastHealthy, stateFile, keyFile,
                   realKeyFile, hpc, npc, spc, activeStreak, compared>>
    /\ UNCHANGED <<storeVars, ledgerVars, lockVars, authVars, importVars, unitVars, reply,
                   probeFailedInGrace>>

\* failover.go notifyPeerOfFailback: POST /failback_notify, 5 s timeout.
notifyPeerOfFailback(n, ok) ==
    /\ fpc[n] = "fb_notify"
    /\ IF ok /\ npc[Peer(n)] = "idle"
       THEN npc' = [npc EXCEPT ![Peer(n)] = "bn_check"]
       ELSE UNCHANGED npc
    /\ fpc' = [fpc EXCEPT ![n] = "fb_wait"]
    /\ Charge(ok)
    /\ UNCHANGED <<isActive, failureCount, failbackInProgress, lastHealthy,
                   lockFile, stateFile, keyFile, realKeyFile, valKey, hpc,
                   spc, activeStreak, compared>>
    /\ UNCHANGED <<storeVars, ledgerVars, lockVars, authVars, importVars, unitVars, reply,
                   probeFailedInGrace>>

\* initiateFailback, after client.Do returned (the reply, or the client
\* timeout): fm.isActive = true; fm.failureCount = 0; unlock; the deferred
\* function clears failbackInProgress.
FailbackFinish(n, ok) ==
    /\ fpc[n] = "fb_wait"
    /\ ok <=> npc[Peer(n)] = "idle"
    /\ isActive' = [isActive EXCEPT ![n] = TRUE]
    /\ failureCount' = [failureCount EXCEPT ![n] = 0]
    /\ fpc' = [fpc EXCEPT ![n] = "none"]
    /\ failbackInProgress' = [failbackInProgress EXCEPT ![n] = FALSE]
    /\ Charge(ok)
    /\ UNCHANGED <<lastHealthy, lockFile, stateFile, keyFile, realKeyFile,
                   valKey, hpc, npc, spc, activeStreak, compared>>
    /\ UNCHANGED <<storeVars, ledgerVars, lockVars, authVars, importVars, unitVars, reply,
                   probeFailedInGrace>>

\* ------------------------------------------------- server: failover_notify

\* handleFailoverNotify with the role test inverted (IsActive() for
\* !IsActive()): a passive node answers 200 without taking over.
handleFailoverNotify_Inverted(n) ==
    /\ npc[n] = "fn_check"
    /\ ~MuHeld(n)
    /\ IF isActive[n] /\ lastHealthy[n]
       THEN LET a == AcquireLock(lockFile[n])
            IN /\ lockFile' = [lockFile EXCEPT ![n] = a.held]
               /\ npc' = [npc EXCEPT ![n] =
                     IF a.err = "nil" THEN "fn_restart" ELSE "idle"]
               /\ reply' = [reply EXCEPT ![n] =
                     IF a.err = "nil" THEN @ ELSE "500"]
       ELSE /\ npc' = [npc EXCEPT ![n] = "idle"]
            /\ reply' = [reply EXCEPT ![n] = "200"]
            /\ UNCHANGED lockFile
    /\ compared' = [compared EXCEPT ![n] = FALSE]
    /\ UNCHANGED <<isActive, failureCount, failbackInProgress, lastHealthy,
                   stateFile, keyFile, realKeyFile, valKey, hpc, fpc, spc,
                   activeStreak, faults>>
    /\ UNCHANGED <<storeVars, ledgerVars, lockVars, authVars, importVars, unitVars,
                   probeFailedInGrace>>

\* server.go handleFailoverNotify, first part: when IsActive() (RLock on
\* fm.mu) is false and IsHealthy(), AcquireLock, answering 500 on error;
\* otherwise answer 200 at once.
handleFailoverNotify(n) ==
    /\ npc[n] = "fn_check"
    /\ ~MuHeld(n)
    /\ IF ~isActive[n] /\ lastHealthy[n]
       THEN LET a == AcquireLock(lockFile[n])
            IN /\ lockFile' = [lockFile EXCEPT ![n] = a.held]
               /\ npc' = [npc EXCEPT ![n] =
                     IF a.err = "nil" THEN "fn_restart" ELSE "idle"]
               /\ reply' = [reply EXCEPT ![n] =
                     IF a.err = "nil" THEN @ ELSE "500"]
       ELSE /\ npc' = [npc EXCEPT ![n] = "idle"]
            /\ reply' = [reply EXCEPT ![n] = "200"]
            /\ UNCHANGED lockFile
    /\ compared' = [compared EXCEPT ![n] = FALSE]
    /\ UNCHANGED <<isActive, failureCount, failbackInProgress, lastHealthy,
                   stateFile, keyFile, realKeyFile, valKey, hpc, fpc, spc,
                   activeStreak, faults>>
    /\ UNCHANGED <<storeVars, ledgerVars, lockVars, authVars, importVars, unitVars,
                   probeFailedInGrace>>

\* handleFailoverNotify: nodeRestarter.Restart(); 500 on error (the lock
\* acquired above is not released on this path).
FailoverNotifyRestart(n, ok) ==
    /\ npc[n] = "fn_restart"
    /\ LET r == Restart(keyFile[n], ok)
       IN /\ valKey' = [valKey EXCEPT ![n] = r.loaded]
          /\ npc' = [npc EXCEPT ![n] =
                IF r.err = "nil" THEN "fn_set" ELSE "idle"]
          /\ reply' = [reply EXCEPT ![n] =
                IF r.err = "nil" THEN @ ELSE "500"]
    /\ Charge(ok)
    /\ UNCHANGED <<isActive, failureCount, failbackInProgress, lastHealthy,
                   lockFile, stateFile, keyFile, realKeyFile, hpc, fpc, spc,
                   activeStreak, compared>>
    /\ UNCHANGED <<storeVars, ledgerVars, lockVars, authVars, importVars, unitVars,
                   probeFailedInGrace>>

\* handleFailoverNotify: nodeStatus.SetActive(true) (Lock on fm.mu), 200.
FailoverNotifySetActive(n) ==
    /\ npc[n] = "fn_set"
    /\ ~MuHeld(n)
    /\ isActive' = [isActive EXCEPT ![n] = TRUE]
    /\ npc' = [npc EXCEPT ![n] = "idle"]
    /\ reply' = [reply EXCEPT ![n] = "200"]
    /\ UNCHANGED <<failureCount, failbackInProgress, lastHealthy, lockFile,
                   stateFile, keyFile, realKeyFile, valKey, hpc, fpc, spc,
                   activeStreak, compared, faults>>
    /\ UNCHANGED <<storeVars, ledgerVars, lockVars, authVars, importVars, unitVars,
                   probeFailedInGrace>>

\* ------------------------------------------------- server: failback_notify

\* handleFailbackNotify without the IsActive() test: the release is carried
\* out whatever the role.
handleFailbackNotify_AnyRole(n) ==
    /\ npc[n] = "bn_check"
    /\ ~MuHeld(n)
    /\ npc' = [npc EXCEPT ![n] = "bn_delete"]
    /\ UNCHANGED <<isActive, failureCount, failbackInProgress, lastHealthy,
                   lockFile, stateFile, keyFile, realKeyFile, valKey, hpc,
                   fpc, spc, activeStreak, compared, faults>>
    /\ UNCHANGED <<storeVars, ledgerVars, lockVars, authVars, importVars, unitVars,
                   reply, probeFailedInGrace>>

\* server.go handleFailbackNotify, the condition: IsActive(); a passive node
\* answers 200 at once.
handleFailbackNotify(n) ==
    /\ npc[n] = "bn_check"
    /\ ~MuHeld(n)
    /\ npc' = [npc EXCEPT ![n] = IF isActive[n] THEN "bn_delete" ELSE "idle"]
    /\ reply' = [reply EXCEPT ![n] = IF isActive[n] THEN @ ELSE "200"]
    /\ UNCHANGED <<isActive, failureCount, failbackInProgress, lastHealthy,
                   lockFile, stateFile, keyFile, realKeyFile, valKey, hpc,
                   fpc, spc, activeStreak, compared, faults>>
    /\ UNCHANGED <<storeVars, ledgerVars, lockVars, authVars, importVars, unitVars,
                   probeFailedInGrace>>

\* handleFailbackNotify: keyProvider.DeleteKey(); an error is only logged.
FailbackNotifyDeleteKey(n, ok) ==
    /\ npc[n] = "bn_delete"
    /\ LET d == DeleteKey(keyFile[n], realKeyFile[n], ok)
       IN /\ keyFile' = [keyFile EXCEPT ![n] = d.key]
          /\ realKeyFile' = [realKeyFile EXCEPT ![n] = d.realKey]
    /\ npc' = [npc EXCEPT ![n] = "bn_restart"]
    /\ Charge(ok)
    /\ UNCHANGED <<isActive, failureCount, failbackInProgress, lastHealthy,
                   lockFile, stateFile, valKey, hpc, fpc, spc, activeStreak,
                   compared>>
    /\ UNCHANGED <<storeVars, ledgerVars, lockVars, authVars, importVars, unitVars, reply,
                   probeFailedInGrace>>

\* handleFailbackNotify: nodeRestarter.Restart(); an error is only logged.
FailbackNotifyRestart(n, ok) ==
    /\ npc[n] = "bn_restart"
    /\ valKey' = [valKey EXCEPT ![n] = Restart(keyFile[n], ok).loaded]
    /\ npc' = [npc EXCEPT ![n] = "bn_release"]
    /\ Charge(ok)
    /\ UNCHANGED <<isActive, failureCount, failbackInProgress, lastHealthy,
                   lockFile, stateFile, keyFile, realKeyFile, hpc, fpc, spc,
                   activeStreak, compared>>
    /\ UNCHANGED <<storeVars, ledgerVars, lockVars, authVars, importVars, unitVars, reply,
                   probeFailedInGrace>>

\* handleFailbackNotify: stateProvider.ReleaseLock().
FailbackNotifyReleaseLock(n) ==
    /\ npc[n] = "bn_release"
    /\ lockFile' = [lockFile EXCEPT ![n] = ReleaseLock(@)]
    /\ npc' = [npc EXCEPT ![n] = "bn_set"]
    /\ UNCHANGED <<isActive, failureCount, failbackInProgress, lastHealthy,
                   stateFile, keyFile, realKeyFile, valKey, hpc, fpc, spc,
                   activeStreak, compared, faults>>
    /\ UNCHANGED <<storeVars, ledgerVars, lockVars, authVars, importVars, unitVars, reply,
                   probeFailedInGrace>>

\* handleFailbackNotify: nodeStatus.SetActive(false) (Lock on fm.mu), 200.
FailbackNotifySetActive(n) ==
    /\ npc[n] = "bn_set"
    /\ ~MuHeld(n)
    /\ isActive' = [isActive EXCEPT ![n] = FALSE]
    /\ npc' = [npc EXCEPT ![n] = "idle"]
    /\ reply' = [reply EXCEPT ![n] = "200"]
    /\ UNCHANGED <<failureCount, failbackInProgress, lastHealthy, lockFile,
                   stateFile, keyFile, realKeyFile, valKey, hpc, fpc, spc,
                   activeStreak, compared, faults>>
    /\ UNCHANGED <<storeVars, ledgerVars, lockVars, authVars, importVars, unitVars,
                   probeFailedInGrace>>

\* --------------------------------------------------------- state-sync loop

\* failover.go syncValidatorState, one tick: read isActive under RLock and
\* go on to syncStateFromPeer when passive.  Start() spawns the loop only on
\* a node that boots passive.
syncValidatorState(n) ==
    /\ ~BootActive(n)
    /\ spc[n] = "idle"
    /\ ~MuHeld(n)
    /\ ~isActive[n]
    /\ spc' = [spc EXCEPT ![n] = "sync"]
    /\ UNCHANGED <<isActive, failureCount, failbackInProgress, lastHealthy,
                   lockFile, stateFile, keyFile, realKeyFile, valKey, hpc,
                   fpc, npc, activeStreak, compared, faults>>
    /\ UNCHANGED <<storeVars, ledgerVars, lockVars, authVars, importVars, unitVars, reply,
                   probeFailedInGrace>>

\* failover.go syncStateFromPeer in the loop: GET /validator_state from the
\* peer, then SyncFromRemote; an error is only logged.
syncStateFromPeer(n, ok) ==
    /\ spc[n] = "sync"
    /\ stateFile' = [stateFile EXCEPT ![n] =
            IF ok THEN SyncFromRemote(@, stateFile[Peer(n)], TRUE, TRUE).file ELSE @]
    /\ spc' = [spc EXCEPT ![n] = "idle"]
    /\ Charge(ok)
    /\ UNCHANGED <<isActive, failureCount, failbackInProgress, lastHealthy,
                   lockFile, keyFile, realKeyFile, valKey, hpc, fpc, npc,
                   activeStreak, compared>>
    /\ UNCHANGED <<storeVars, ledgerVars, lockVars, authVars, importVars, unitVars, reply,
                   probeFailedInGrace>>

\* --------------------------------------------------------------- validator

\* The supervised validator: a process running with the real key signs and
\* advances its priv_validator_state.json.
ValidatorSign(n) ==
    /\ valKey[n] = "real"
    /\ stateFile[n].height < MaxSignHeight
    /\ stateFile' = [stateFile EXCEPT ![n] = State(@.height + 1, 0, 1)]
    /\ UNCHANGED <<isActive, failureCount, failbackInProgress, lastHealthy,
                   lockFile, keyFile, realKeyFile, valKey, hpc, fpc, npc,
                   spc, activeStreak, compared, faults>>
    /\ UNCHANGED <<storeVars, ledgerVars, lockVars, authVars, importVars, unitVars, reply,
                   probeFailedInGrace>>

\* ------------------------------------------------------------------- Next

HealthLoop(n) ==
    \/ \E ok \in BOOLEAN : performHealthCheck(n, ok)
    \/ performHealthCheckResume(n)
    \/ \E ok \in Outcomes : transferKeyToPeer(n, ok)
    \/ \E ok \in Outcomes : FailoverDeleteKey(n, ok)
    \/ \E ok \in Outcomes : FailoverRestart(n, ok)
    \/ FailoverReleaseLock(n)
    \/ \E ok \in Outcomes : notifyPeerOfFailover(n, ok)
    \/ \E ok \in Outcomes : FailoverFinish(n, ok)

FailbackTask(n) ==
    \/ considerFailback(n)
    \/ \E ok \in Outcomes : requestKeyFromPeer(n, ok)
    \/ FailbackAcquireLock(n)
    \/ \E ok \in Outcomes : FailbackSync(n, ok)
    \/ \E ok \in Outcomes : FailbackRestart(n, ok)
    \/ \E ok \in Outcomes : notifyPeerOfFailback(n, ok)
    \/ \E ok \in Outcomes : FailbackFinish(n, ok)

NotifyHandler(n) ==
    \/ handleFailoverNotify(n)
    \/ \E ok \in Outcomes : FailoverNotifyRestart(n, ok)
    \/ FailoverNotifySetActive(n)
    \/ handleFailbackNotify(n)
    \/ \E ok \in Outcomes : FailbackNotifyDeleteKey(n, ok)
    \/ \E ok \in Outcomes : FailbackNotifyRestart(n, ok)
    \/ FailbackNotifyReleaseLock(n)
    \/ FailbackNotifySetActive(n)

SyncLoop(n) ==
    \/ syncValidatorState(n)
    \/ \E ok \in Outcomes : syncStateFromPeer(n, ok)

Next ==
    \E n \in Nodes :
        \/ HealthLoop(n)
        \/ FailbackTask(n)
        \/ NotifyHandler(n)
        \/ SyncLoop(n)
        \/ ValidatorSign(n)

Init ==
    /\ ProtoInit /\ StoreIdle /\ NewDoubleSignProtector
    /\ LocksFree /\ NoRequests /\ ImportIdle /\ UnitsIdle

Spec == Init /\ [][Next]_vars

\* ------------------------------------------------- fault-free, fair runs

\* A run in which the secondary site stays healthy, every request is
\* delivered and answered before the client timeout, and no file operation
\* or restart fails.
HappyHealthLoop(n) ==
    \/ \E ok \in (IF n = "A" THEN BOOLEAN ELSE {TRUE}) :
            performHealthCheck(n, ok)
    \/ performHealthCheckResume(n)
    \/ transferKeyToPeer(n, TRUE)
    \/ FailoverDeleteKey(n, TRUE)
    \/ FailoverRestart(n, TRUE)
    \/ FailoverReleaseLock(n)
    \/ notifyPeerOfFailover(n, TRUE)
    \/ FailoverFinish(n, TRUE)

HappyFailbackTask(n) ==
    \/ considerFailback(n)
    \/ requestKeyFromPeer(n, TRUE)
    \/ FailbackAcquireLock(n)
    \/ FailbackSync(n, TRUE)
    \/ FailbackRestart(n, TRUE)
    \/ notifyPeerOfFailback(n, TRUE)
    \/ FailbackFinish(n, TRUE)

HappyNotifyHandler(n) ==
    \/ handleFailoverNotify(n)
    \/ FailoverNotifyRestart(n, TRUE)
    \/ FailoverNotifySetActive(n)
    \/ handleFailbackNotify(n)
    \/ FailbackNotifyDeleteKey(n, TRUE)
    \/ FailbackNotifyRestart(n, TRUE)
    \/ FailbackNotifyReleaseLock(n)
    \/ FailbackNotifySetActive(n)

HappySyncLoop(n) ==
    \/ syncValidatorState(n)
    \/ syncStateFromPeer(n, TRUE)

NextHappy ==
    \E n \in Nodes :
        \/ HappyHealthLoop(n)
        \/ HappyFailbackTask(n)
        \/ HappyNotifyHandler(n)
        \/ HappySyncLoop(n)
        \/ ValidatorSign(n)

\* Both nodes have completed a first healthy probe.
InitHappy ==
    /\ Boot
    /\ lastHealthy = [n \in Nodes |-> TRUE]
    /\ StoreIdle
    /\ NewDoubleSignProtector
    /\ LocksFree /\ NoRequests /\ ImportIdle /\ UnitsIdle

\* Every goroutine that can take a step eventually takes one.
FairHappy ==
    \A n \in Nodes :
        /\ WF_vars(HappyHealthLoop(n))
        /\ WF_vars(HappyFailbackTask(n))
        /\ WF_vars(HappyNotifyHandler(n))

SpecHappy == InitHappy /\ [][NextHappy]_vars /\ FairHappy

\* failover.go requestKeyFromPeer and syncStateFromPeer inside
\* initiateFailback: http.Get uses http.DefaultClient, which has no timeout;
\* when the peer accepts the connection and never answers, the call never
\* returns.
httpGetNeverReturns(n) ==
    /\ fpc[n] \in {"fb_reqkey", "fb_sync"}
    /\ fpc' = [fpc EXCEPT ![n] = "fb_hung"]
    /\ UNCHANGED <<isActive, failureCount, failbackInProgress, lastHealthy,
                   lockFile, stateFile, keyFile, realKeyFile, valKey, hpc,
                   npc, spc, activeStreak, compared, faults>>
    /\ UNCHANGED <<storeVars, ledgerVars, lockVars, authVars, importVars, unitVars, reply,
                   probeFailedInGrace>>

\* The fault-free runs, except that the peer may leave a GET unanswered.
NextHang ==
    \/ NextHappy
    \/ \E n \in Nodes : httpGetNeverReturns(n)

SpecHang == InitHappy /\ [][NextHang]_vars /\ FairHappy

\* The same runs with the state-sync ticker firing again and again as well.
FairSync == \A n \in Nodes : WF_vars(HappySyncLoop(n))

SpecHappySync == InitHappy /\ [][NextHappy]_vars /\ FairHappy /\ FairSync

\* -------------------------------------------- the State Store on its own

Heights == 0 .. MaxHeight
Rounds == 0 .. MaxRound
Steps == 1 .. MaxStep

States == {State(h, r, s) : h \in Heights, r \in Rounds, s \in Steps}

\* A call of Manager.SyncFromRemote(remote) on the state file.
StoreSyncFromRemote(remote, loadOk, saveOk) ==
    LET r == SyncFromRemote(diskState, remote, loadOk, saveOk)
    IN /\ diskState' = r.file
       /\ lastCall' = [op |-> "SyncFromRemote", local |-> diskState,
                       remote |-> remote, loadOk |-> loadOk,
                       saveOk |-> saveOk, err |-> r.err, ret |-> FALSE]
       /\ UNCHANGED <<protoVars, ledgerVars, lockVars,
                   authVars, importVars, unitVars>>

\* A call of Manager.CompareStates(local, remote), local being the state
\* on disk.
StoreCompareStates(remote) ==
    /\ lastCall' = [op |-> "CompareStates", local |-> diskState,
                    remote |-> remote, loadOk |-> TRUE, saveOk |-> TRUE,
                    err |-> "nil", ret |-> CompareStates(diskState, remote)]
    /\ UNCHANGED <<diskState, protoVars, ledgerVars, lockVars,
                   authVars, importVars, unitVars>>

InitStore ==
    /\ ProtoInit
    /\ NewDoubleSignProtector
    /\ LocksFree /\ NoRequests /\ ImportIdle /\ UnitsIdle
    /\ diskState \in States
    /\ lastCall = NoCall

NextStore ==
    \/ \E remote \in States, loadOk \in BOOLEAN, saveOk \in BOOLEAN :
            StoreSyncFromRemote(remote, loadOk, saveOk)
    \/ \E remote \in States : StoreCompareStates(remote)

SpecStore == InitStore /\ [][NextStore]_vars

\* -------------------------------------------- the signature ledger alone

LedgerHeights == 0 .. LedgerMaxHeight
LedgerRounds == 0 .. LedgerMaxRound
LedgerSteps == 1 .. LedgerMaxStep

\* A call of DoubleSignProtector.CanSign(height, round, step).
LedgerCanSign(height, round, step) ==
    /\ lastAttempt' = [op |-> "CanSign", height |-> height, round |-> round,
                       step |-> step,
                       err |-> CanSign(signedRecords, lastSignedBlock,
                                       height, round, step),
                       flip |-> ~lastAttempt.flip]
    /\ UNCHANGED <<signedRecords, lastSignedBlock, protoVars, storeVars, lockVars,
                   authVars, importVars, unitVars>>

\* A call of DoubleSignProtector.RecordSignature(height, round, step).
LedgerRecordSignature(height, round, step) ==
    LET r == RecordSignature(signedRecords, lastSignedBlock,
                             height, round, step)
    IN /\ signedRecords' = r.records
       /\ lastSignedBlock' = r.last
       /\ lastAttempt' = [op |-> "RecordSignature", height |-> height,
                          round |-> round, step |-> step, err |-> r.err,
                          flip |-> ~lastAttempt.flip]
       /\ UNCHANGED <<protoVars, storeVars, lockVars,
                   authVars, importVars, unitVars>>

\* double_sign.go pruneOldRecords: a tick of the prune ticker.
pruneOldRecords ==
    /\ signedRecords' = pruneOldRecordsLocked(signedRecords, lastSignedBlock)
    /\ signedRecords' # signedRecords
    /\ UNCHANGED <<lastSignedBlock, lastAttempt, protoVars, storeVars, lockVars,
                   authVars, importVars, unitVars>>

InitLedger ==
    /\ ProtoInit /\ StoreIdle /\ NewDoubleSignProtector
    /\ LocksFree /\ NoRequests /\ ImportIdle /\ UnitsIdle

NextLedger ==
    \/ \E h \in LedgerHeights, r \in LedgerRounds, s \in LedgerSteps :
            LedgerCanSign(h, r, s)
    \/ \E h \in LedgerHeights, r \in LedgerRounds, s \in LedgerSteps :
            LedgerRecordSignature(h, r, s)
    \/ pruneOldRecords

SpecLedger == InitLedger /\ [][NextLedger]_vars

\* ------------------------------------------------ the state lock alone

\* A call of m.AcquireLock(): O_CREATE|O_EXCL on the lock file of m's state
\* path; on success m.lockFile is set.
LockAcquire(m) ==
    LET a == AcquireLock(lockPathExists[statePath(m)])
    IN /\ lockPathExists' = [lockPathExists EXCEPT ![statePath(m)] = a.held]
       /\ mLockFile' = [mLockFile EXCEPT ![m] =
                IF a.err = "nil" THEN TRUE ELSE @]
       /\ lastLockCall' = [op |-> "AcquireLock", mgr |-> m, err |-> a.err,
                           existed |-> lockPathExists[statePath(m)],
                           holder |-> mLockFile[m]]
       /\ UNCHANGED <<protoVars, storeVars, ledgerVars,
                   authVars, importVars, unitVars>>

\* ReleaseLock without the m.lockFile == nil test: the lock file is removed
\* whoever created it.
LockRelease_AnyHolder(m) ==
    /\ lockPathExists' = [lockPathExists EXCEPT ![statePath(m)] =
            ReleaseLock(@)]
    /\ mLockFile' = [mLockFile EXCEPT ![m] = FALSE]
    /\ lastLockCall' = [op |-> "ReleaseLock", mgr |-> m, err |-> "nil",
                        existed |-> lockPathExists[statePath(m)],
                        holder |-> mLockFile[m]]
    /\ UNCHANGED <<protoVars, storeVars, ledgerVars,
                   authVars, importVars, unitVars>>

\* A call of m.ReleaseLock(): nothing when m.lockFile is nil, else the
\* lock file is closed and removed and m.lockFile set to nil.
LockRelease(m) ==
    /\ IF mLockFile[m]
       THEN /\ lockPathExists' = [lockPathExists EXCEPT ![statePath(m)] =
                    ReleaseLock(@)]
            /\ mLockFile' = [mLockFile EXCEPT ![m] = FALSE]
       ELSE UNCHANGED <<lockPathExists, mLockFile>>
    /\ lastLockCall' = [op |-> "ReleaseLock", mgr |-> m, err |-> "nil",
                        existed |-> lockPathExists[statePath(m)],
                        holder |-> mLockFile[m]]
    /\ UNCHANGED <<protoVars, storeVars, ledgerVars,
                   authVars, importVars, unitVars>>

InitLock ==
    /\ ProtoInit /\ StoreIdle /\ NewDoubleSignProtector
    /\ LocksFree /\ NoRequests /\ ImportIdle /\ UnitsIdle

NextLock ==
    \/ \E m \in Managers : LockAcquire(m)
    \/ \E m \in Managers : LockRelease(m)

SpecLock == InitLock /\ [][NextLock]_vars

\* ------------------------------------------- the server and its requests

Paths == {"/validator_key", "/failover_notify", "/failback_notify"}

\* A POST as a client builds it at time timestamp with the secret it holds
\* ("": the request carries no X-Signature), received at time now.
Post(n, path, secret, timestamp, now) ==
    [node |-> n, path |-> path,
     signature |-> IF secret = "" THEN NoSignature
                   ELSE SignWithTimestamp(<<"POST", path>>, secret, timestamp),
     timestamp |-> timestamp, receivedAt |-> now]

\* The requests drawn go to the node that boots passive (a take-over makes
\* it active, a release passive again).
Posts ==
    {Post(n, path, secret, timestamp, now) :
        n \in {m \in Nodes : ~BootActive(m)}, path \in Paths,
        secret \in Secrets \cup {""},
        timestamp \in 0..MaxClock, now \in 0..MaxClock}

\* server.go Start: the mux hands a request for /failover_notify or
\* /failback_notify to its handler.  Requests are served one at a time.
ServeMux(req) ==
    /\ \A n \in Nodes : npc[n] = "idle"
    /\ req.timestamp <= req.receivedAt
    /\ req.path \in {"/failover_notify", "/failback_notify"}
    /\ lastRequest' = req
    /\ npc' = [npc EXCEPT ![req.node] =
            IF req.path = "/failover_notify" THEN "fn_check" ELSE "bn_check"]
    /\ reply' = [reply EXCEPT ![req.node] = "none"]
    /\ UNCHANGED <<isActive, failureCount, failbackInProgress, lastHealthy,
                   lockFile, stateFile, keyFile, realKeyFile, valKey, hpc,
                   fpc, spc, activeStreak, compared, probeFailedInGrace,
                   faults>>
    /\ UNCHANGED <<storeVars, ledgerVars, lockVars, importVars, unitVars>>

\* server.go handleValidatorKey, method POST: read the body, KeyFromBytes,
\* 500 on its error, else 200.
handleValidatorKey(req, body, ok) ==
    /\ \A n \in Nodes : npc[n] = "idle"
    /\ req.timestamp <= req.receivedAt
    /\ req.path = "/validator_key"
    /\ lastRequest' = req
    /\ LET k == KeyFromBytes(keyFile[req.node], body, ok)
       IN /\ keyFile' = [keyFile EXCEPT ![req.node] = k.key]
          /\ reply' = [reply EXCEPT ![req.node] =
                IF k.err = "nil" THEN "200" ELSE "500"]
    /\ UNCHANGED <<isActive, failureCount, failbackInProgress, lastHealthy,
                   lockFile, stateFile, realKeyFile, valKey, hpc, fpc, npc,
                   spc, activeStreak, compared, probeFailedInGrace, faults>>
    /\ UNCHANGED <<storeVars, ledgerVars, lockVars, importVars, unitVars>>

\* Two nodes at rest, each with any cached probe verdict.
InitAuth ==
    /\ Boot
    /\ lastHealthy \in [Nodes -> BOOLEAN]
    /\ StoreIdle /\ NewDoubleSignProtector
    /\ LocksFree /\ NoRequests /\ ImportIdle /\ UnitsIdle

NextAuth ==
    \/ \E req \in Posts : ServeMux(req)
    \/ \E req \in Posts, d \in Plaintexts, ok \in BOOLEAN :
            handleValidatorKey(req, Raw(d), ok)
    \/ \E req \in Posts : NotifyHandler(req.node)

SpecAuth == InitAuth /\ [][NextAuth]_vars

\* -------------------------------------------- the key import on its own

\* The payloads drawn: ciphertexts of each plaintext under each secret, as
\* sent, with a byte flipped, or cut short; and plaintexts sent as they are.
ImportPayloads ==
    LET sealed == {Encrypt(Raw(d), secret) :
                        d \in Plaintexts, secret \in Secrets}
    IN sealed \cup {Tamper(c) : c \in sealed}
              \cup {Truncate(c) : c \in sealed}
              \cup {Raw(d) : d \in Plaintexts}

\* KeyManager.DecryptKeyFromBytes(data, secret) on the key file.
ImportDecryptKeyFromBytes(data, secret, ok) ==
    /\ LET k == DecryptKeyFromBytes(kmKeyFile, data, secret, ok)
       IN /\ kmKeyFile' = k.key
          /\ lastImport' = [op |-> "DecryptKeyFromBytes", data |-> data,
                            secret |-> secret, err |-> k.err]
    /\ UNCHANGED <<protoVars, storeVars, ledgerVars, lockVars, authVars,
                   unitVars>>

\* server.go handleValidatorKey, method POST, on the key file of a node that
\* holds the cluster secret: the body goes to KeyManager.KeyFromBytes as it
\* was received.
ImportKeyFromBytes(data, ok) ==
    /\ LET k == KeyFromBytes(kmKeyFile, data, ok)
       IN /\ kmKeyFile' = k.key
          /\ lastImport' = [op |-> "KeyFromBytes", data |-> data,
                            secret |-> ClusterSecret, err |-> k.err]
    /\ UNCHANGED <<protoVars, storeVars, ledgerVars, lockVars, authVars,
                   unitVars>>

InitImport ==
    /\ ProtoInit /\ StoreIdle /\ NewDoubleSignProtector
    /\ LocksFree /\ NoRequests /\ ImportIdle /\ UnitsIdle

NextImport ==
    \/ \E data \in ImportPayloads, secret \in Secrets, ok \in BOOLEAN :
            ImportDecryptKeyFromBytes(data, secret, ok)
    \/ \E data \in ImportPayloads, ok \in BOOLEAN :
            ImportKeyFromBytes(data, ok)

SpecImport == InitImport /\ [][NextImport]_vars

\* ---------------------------------------------- the key swap on its own

\* KeyManager.DeleteKey().  A missing key file cannot be renamed; a key file
\* that is not JSON fails in BackupKey when a backup path is configured
\* (both are outcomes ok = FALSE).
SwapDeleteKey(ok) ==
    /\ swapKeyFile = "none" => ~ok
    /\ LET d == DeleteKey(swapKeyFile, swapRealKeyFile, ok)
       IN /\ swapKeyFile' = d.key
          /\ swapRealKeyFile' = d.realKey
          /\ lastKeyCall' = [op |-> "DeleteKey", err |-> d.err,
                             before |-> swapKeyFile]
    /\ prevKeyCall' = lastKeyCall
    /\ UNCHANGED <<protoVars, storeVars, ledgerVars, lockVars, authVars,
                   importVars, stopVars, healthVars,
                   verifyVars, binVars,
                   raceVars>>

\* KeyManager.RestoreKey().
SwapRestoreKey(outcome) ==
    /\ LET r == RestoreKey(swapKeyFile, swapRealKeyFile, outcome)
       IN /\ swapKeyFile' = r.key
          /\ swapRealKeyFile' = r.realKey
          /\ lastKeyCall' = [op |-> "RestoreKey", err |-> r.err,
                             before |-> swapKeyFile]
    /\ prevKeyCall' = lastKeyCall
    /\ UNCHANGED <<protoVars, storeVars, ledgerVars, lockVars, authVars,
                   importVars, stopVars, healthVars,
                   verifyVars, binVars,
                   raceVars>>

\* The key file starts with any content.
InitSwap ==
    /\ ProtoInit /\ StoreIdle /\ NewDoubleSignProtector
    /\ LocksFree /\ NoRequests /\ ImportIdle
    /\ swapKeyFile \in Plaintexts
    /\ swapRealKeyFile = "none"
    /\ lastKeyCall = NoKeyCall
    /\ prevKeyCall = NoKeyCall
    /\ Running /\ CheckerIdle /\ VerifyIdle /\ NewBinaryManager /\ RaceIdle

NextSwap ==
    \/ \E ok \in BOOLEAN : SwapDeleteKey(ok)
    \/ \E outcome \in {"nil", "remove", "rename"} : SwapRestoreKey(outcome)

SpecSwap == InitSwap /\ [][NextSwap]_vars

\* -------------------------------------------------------------- shutdown

\* failover.go Stop: close(fm.stopCh), stateManager.ReleaseLock(),
\* nodeManager.Stop().  Closing a closed channel panics, before anything else
\* is done.
Stop(n) ==
    /\ IF stopCh[n] = "closed"
       THEN /\ lastStop' = [lastStop EXCEPT ![n] = "panic"]
            /\ UNCHANGED <<stopCh, lockFile, valKey>>
       ELSE /\ stopCh' = [stopCh EXCEPT ![n] = "closed"]
            /\ lockFile' = [lockFile EXCEPT ![n] = ReleaseLock(@)]
            /\ valKey' = [valKey EXCEPT ![n] = "none"]
            /\ lastStop' = [lastStop EXCEPT ![n] = "nil"]
    /\ UNCHANGED <<isActive, failureCount, failbackInProgress, lastHealthy,
                   stateFile, keyFile, realKeyFile, hpc, fpc, npc, reply,
                   spc, activeStreak, compared, probeFailedInGrace, faults>>
    /\ UNCHANGED <<storeVars, ledgerVars, lockVars, authVars, importVars,
                   swapVars, dspStopCh, lastDspStop,
                   healthVars, verifyVars, binVars,
                   raceVars>>

\* double_sign.go Stop: close(dsp.stopCh).
DspStop ==
    /\ IF dspStopCh = "closed"
       THEN /\ lastDspStop' = "panic"
            /\ UNCHANGED dspStopCh
       ELSE /\ dspStopCh' = "closed"
            /\ lastDspStop' = "nil"
    /\ UNCHANGED <<protoVars, storeVars, ledgerVars, lockVars, authVars,
                   importVars, swapVars, stopCh, lastStop,
                   healthVars, verifyVars, binVars,
                   raceVars>>

\* Fault-free runs of the pair up to the first shutdown; what the pair does
\* after a node has left is not followed.
NextStop ==
    \/ (\A n \in Nodes : stopCh[n] = "open") /\ NextHappy
    \/ \E n \in Nodes : Stop(n)
    \/ DspStop

SpecStop == InitHappy /\ [][NextStop]_vars

\* ------------------------------------------ the health checker on its own

StatusReplies ==
    {TransportError} \cup
    {HttpReply(code, json, c, 0) :
        code \in StatusCodes, json \in BOOLEAN, c \in BOOLEAN}

NetInfoReplies ==
    {TransportError} \cup
    {HttpReply(code, json, FALSE, k) :
        code \in StatusCodes, json \in BOOLEAN, k \in 0..MaxPeers}

\* Checker.PerformHealthCheck() against a node that answers /status and
\* /net_info with the two replies.
CheckerProbe(status, netInfo) ==
    /\ LET r == PerformHealthCheck(status, netInfo)
       IN /\ lastHealth' = r.health
          /\ lastProbe' = [status |-> status, netInfo |-> netInfo,
                           err |-> r.err]
    /\ UNCHANGED <<protoVars, storeVars, ledgerVars, lockVars, authVars,
                   importVars, swapVars, stopVars, minPeers, verifyVars, binVars,
                   raceVars>>

\* A Checker made with any min_peers setting.
InitChecker ==
    /\ ProtoInit /\ StoreIdle /\ NewDoubleSignProtector
    /\ LocksFree /\ NoRequests /\ ImportIdle
    /\ SwapIdle /\ Running /\ VerifyIdle /\ NewBinaryManager /\ RaceIdle
    /\ minPeers \in 0..MaxPeers
    /\ lastHealth = NilHealth
    /\ lastProbe = NoProbe

NextChecker ==
    \E status \in StatusReplies, netInfo \in NetInfoReplies :
        CheckerProbe(status, netInfo)

SpecChecker == InitChecker /\ [][NextChecker]_vars

\* ------------------------------------- the timed signature check on its own

\* The signed data: the method and path of each POST.
SignedData == {<<"POST", path>> : path \in Paths}

\* The signatures presented: none, or the one a client holding either secret
\* makes for either data at any time.
Signatures ==
    {NoSignature} \cup
    {SignWithTimestamp(data, secret, timestamp) :
        data \in SignedData, secret \in Secrets, timestamp \in 0..MaxClock}

\* One VerifyTimedSignature(data, signature, secret, timestamp, timeoutMs)
\* call made when the receiver's clock reads now.
VerifyCall(data, signature, secret, timestamp, now) ==
    /\ lastVerify' =
            [called |-> TRUE, data |-> data, signature |-> signature,
             secret |-> secret, timestamp |-> timestamp, now |-> now,
             ret |-> VerifyTimedSignature(data, signature, secret, timestamp,
                                          TimeoutMs, now)]
    /\ UNCHANGED <<protoVars, storeVars, ledgerVars, lockVars, authVars,
                   importVars, swapVars, stopVars, healthVars, binVars,
                   raceVars>>

InitVerify ==
    /\ ProtoInit /\ StoreIdle /\ NewDoubleSignProtector
    /\ LocksFree /\ NoRequests /\ ImportIdle /\ UnitsIdle

NextVerify ==
    \E data \in SignedData, signature \in Signatures, secret \in Secrets,
       timestamp \in 0..MaxClock, now \in 0..MaxClock :
        VerifyCall(data, signature, secret, timestamp, now)

SpecVerify == InitVerify /\ [][NextVerify]_vars

\* ------------------------------------------ the binary back-end on its own

binFrame ==
    UNCHANGED <<protoVars, storeVars, ledgerVars, lockVars, authVars,
                importVars, swapVars, stopVars, healthVars, verifyVars,
                raceVars>>

\* The Cmd the next exec.Command call makes.
NextChild == CHOOSE c \in Children :
                /\ proc[c] = "unborn"
                /\ \A d \in Children : proc[d] = "unborn" => c <= d

\* binary.go Start under m.mu: an error when running; else a new Cmd is
\* stored in m.cmd, and when cmd.Start() succeeds (ok) running is set and the
\* monitor goroutine is spawned.
StartLocked(ok) ==
    IF bmRunning
    THEN UNCHANGED <<bmRunning, bmCmd, proc, mon>>
    ELSE LET c == NextChild
         IN /\ bmCmd' = c
            /\ IF ok
               THEN /\ proc' = [proc EXCEPT ![c] = "alive"]
                    /\ bmRunning' = TRUE
                    /\ mon' = [mon EXCEPT ![c] = [pc |-> "check", cmd |-> 0]]
               ELSE /\ proc' = [proc EXCEPT ![c] = "unstarted"]
                    /\ UNCHANGED <<bmRunning, mon>>

\* binary.go Stop under m.mu: nothing when not running or without a Cmd;
\* else SIGTERM (SIGKILL after the timeout), wait until the child is gone,
\* clear running and m.cmd.
StopLocked ==
    IF ~bmRunning \/ bmCmd = 0
    THEN UNCHANGED <<bmRunning, bmCmd, proc, mon>>
    ELSE /\ proc' = [proc EXCEPT ![bmCmd] = "exited"]
         /\ bmRunning' = FALSE
         /\ bmCmd' = 0
         /\ UNCHANGED mon

CanSpawn == bmRunning \/ \E c \in Children : proc[c] = "unborn"

BinStart(ok) ==
    /\ ~bmPanic
    /\ CanSpawn
    /\ StartLocked(ok)
    /\ UNCHANGED <<rpc, bmPanic>>
    /\ binFrame

BinStop ==
    /\ ~bmPanic
    /\ StopLocked
    /\ UNCHANGED <<rpc, bmPanic>>
    /\ binFrame

\* binary.go Restart, first half: Stop(), then time.Sleep(restartDelay).
BinRestartStop ==
    /\ ~bmPanic
    /\ rpc = "idle"
    /\ StopLocked
    /\ rpc' = "sleep"
    /\ UNCHANGED bmPanic
    /\ binFrame

\* binary.go Restart, second half: Start().
BinRestartStart(ok) ==
    /\ ~bmPanic
    /\ rpc = "sleep"
    /\ CanSpawn
    /\ StartLocked(ok)
    /\ rpc' = "idle"
    /\ UNCHANGED bmPanic
    /\ binFrame

\* The child process ends by itself.
ChildExit(c) ==
    /\ proc[c] = "alive"
    /\ proc' = [proc EXCEPT ![c] = "exited"]
    /\ UNCHANGED <<bmRunning, bmCmd, mon, rpc, bmPanic>>
    /\ binFrame

\* binary.go monitor, line 144: m.cmd is read without m.mu; return when nil.
MonitorCheck(c) ==
    /\ ~bmPanic
    /\ mon[c].pc = "check"
    /\ mon' = [mon EXCEPT ![c].pc = IF bmCmd = 0 THEN "done" ELSE "call"]
    /\ UNCHANGED <<bmRunning, bmCmd, proc, rpc, bmPanic>>
    /\ binFrame

\* A Cmd on which some monitor has called Wait already.
Waited(d) == \E c \in Children : mon[c].cmd = d /\ mon[c].pc \in {"wait", "lock", "done"}

\* binary.go monitor, line 148: m.cmd is read again, without m.mu, and
\* Wait() is called on it: a nil pointer panics; Wait on a Cmd that was not
\* started returns an error at once; a second Wait on one Cmd, which races
\* with the first, returns "Wait was already called" at once (early) or
\* blocks like the first; else the goroutine blocks until the child is gone.
MonitorCall(c, early) ==
    /\ ~bmPanic
    /\ mon[c].pc = "call"
    /\ IF bmCmd = 0
       THEN /\ bmPanic' = TRUE
            /\ UNCHANGED mon
       ELSE /\ mon' = [mon EXCEPT ![c] =
                    [pc |-> IF \/ proc[bmCmd] = "unstarted"
                               \/ Waited(bmCmd) /\ early
                            THEN "lock" ELSE "wait",
                     cmd |-> bmCmd]]
            /\ UNCHANGED bmPanic
    /\ UNCHANGED <<bmRunning, bmCmd, proc, rpc>>
    /\ binFrame

\* binary.go monitor: cmd.Wait() returns once the child is gone.
MonitorWake(c) ==
    /\ ~bmPanic
    /\ mon[c].pc = "wait"
    /\ proc[mon[c].cmd] = "exited"
    /\ mon' = [mon EXCEPT ![c].pc = "lock"]
    /\ UNCHANGED <<bmRunning, bmCmd, proc, rpc, bmPanic>>
    /\ binFrame

\* binary.go monitor, lines 150-152: running = false under m.mu.
MonitorMark(c) ==
    /\ ~bmPanic
    /\ mon[c].pc = "lock"
    /\ bmRunning' = FALSE
    /\ mon' = [mon EXCEPT ![c].pc = "done"]
    /\ UNCHANGED <<bmCmd, proc, rpc, bmPanic>>
    /\ binFrame

monitor(c) ==
    \/ MonitorCheck(c)
    \/ \E early \in BOOLEAN : MonitorCall(c, early)
    \/ MonitorWake(c)
    \/ MonitorMark(c)

InitBinary ==
    /\ ProtoInit /\ StoreIdle /\ NewDoubleSignProtector
    /\ LocksFree /\ NoRequests /\ ImportIdle /\ UnitsIdle

NextBinary ==
    \/ \E ok \in BOOLEAN : BinStart(ok)
    \/ BinStop
    \/ BinRestartStop
    \/ \E ok \in BOOLEAN : BinRestartStart(ok)
    \/ \E c \in Children : ChildExit(c)
    \/ \E c \in Children : monitor(c)

SpecBinary == InitBinary /\ [][NextBinary]_vars

\* binary.go IsRunning: m.running under m.mu.
IsRunning == bmRunning

\* ------------------------------------ concurrent SyncFromRemote calls

\* The remote states drawn: one per height.
RemoteStates == {State(h, 0, 1) : h \in Heights}

raceFrame ==
    UNCHANGED <<protoVars, storeVars, ledgerVars, lockVars, authVars,
                importVars, swapVars, stopVars, healthVars, verifyVars,
                binVars>>

\* manager.go SyncFromRemote, line 198: LoadState() reads the file under
\* m.mu and releases the mutex; an error ends the call.
SyncLoad(c, remote, loadOk) ==
    /\ syncCall[c].pc = "idle"
    /\ syncCall' = [syncCall EXCEPT ![c] =
            IF loadOk
            THEN [pc |-> "loaded", local |-> raceFile, remote |-> remote]
            ELSE NoSyncCall]
    /\ UNCHANGED raceFile
    /\ raceFrame

\* manager.go SyncFromRemote, lines 203-228: the shouldUpdate decision on
\* the state loaded before, then SaveState(remoteState) under m.mu.
SyncSave(c, saveOk) ==
    /\ syncCall[c].pc = "loaded"
    /\ raceFile' =
            IF shouldUpdate(syncCall[c].local, syncCall[c].remote) /\ saveOk
            THEN syncCall[c].remote
            ELSE raceFile
    /\ syncCall' = [syncCall EXCEPT ![c] = NoSyncCall]
    /\ raceFrame

InitRace ==
    /\ ProtoInit /\ StoreIdle /\ NewDoubleSignProtector
    /\ LocksFree /\ NoRequests /\ ImportIdle /\ UnitsIdle

NextRace ==
    \/ \E c \in Callers, remote \in RemoteStates, loadOk \in BOOLEAN :
            SyncLoad(c, remote, loadOk)
    \/ \E c \in Callers, saveOk \in BOOLEAN : SyncSave(c, saveOk)

SpecRace == InitRace /\ [][NextRace]_vars

\* ================================================================= properties

\* No failover, failback or notify handler is in progress on either node.
Quiescent ==
    \A n \in Nodes :
        /\ hpc[n] \notin FailoverLocked
        /\ fpc[n] \notin FailbackLocked
        /\ npc[n] = "idle"

\* C1: at every quiescent point at most one of the two nodes has a key file
\* holding the real validator key.
C1_SingleRealKey ==
    Quiescent => ~(keyFile["A"] = "real" /\ keyFile["B"] = "real")

\* C2: at every moment at most one node holds the state-file lock.
C2_SingleLockHolder ==
    Cardinality({n \in Nodes : lockFile[n]}) <= 1

\* C3: every step that turns a node from Passive to Active ends a transition
\* in which the node (a) acquired the state lock, (b) received or held the
\* real key and (c) compared its state with the peer's and was not behind.
C3_ActivationPreceded ==
    [][\A n \in Nodes :
          (~isActive[n] /\ isActive'[n]) =>
              /\ lockFile'[n]
              /\ keyFile'[n] = "real"
              /\ compared'[n]]_vars

\* C4: initiateFailover starts on a node only after RetryAttempts consecutive
\* not-ok probes all taken while the node was Active; it does start when the
\* probe that completes such a run is handled; and a healthy probe handled
\* by the loop resets failureCount to 0 without starting a failover.
C4_FailoverThreshold ==
    [][\A n \in Nodes :
          /\ (hpc[n] \notin FailoverLocked /\ hpc'[n] = "fo_transfer") =>
                 activeStreak'[n] = RetryAttempts
          /\ (activeStreak[n] = RetryAttempts - 1
                 /\ activeStreak'[n] = RetryAttempts /\ ~MuHeld(n)) =>
                 hpc'[n] = "fo_transfer"
          /\ (~lastHealthy[n] /\ lastHealthy'[n] /\ ~MuHeld(n)) =>
                 (failureCount'[n] = 0 /\ hpc'[n] = "idle")
          /\ (hpc[n] = "success" /\ hpc'[n] # "success") =>
                 (failureCount'[n] = 0 /\ hpc'[n] = "idle")]_vars

\* C5: in a fault-free fair run, A notifies the peer only after it has
\* replaced its key by the mock key and restarted the validator; A's wait
\* for the reply ends with B's handler finished and B Active; and a failover
\* started on A leads to A Passive, B Active and the lock held by B alone.
C5_HappyFailover ==
    /\ [](hpc["A"] \in {"fo_notify", "fo_wait"} =>
              keyFile["A"] = "mock" /\ valKey["A"] = "mock")
    /\ [][(hpc["A"] = "fo_wait" /\ hpc'["A"] = "idle") =>
              (npc["B"] = "idle" /\ isActive["B"])]_vars
    /\ (activeStreak["A"] = RetryAttempts ~>
            (~isActive["A"] /\ isActive["B"]
                /\ lockFile["B"] /\ ~lockFile["A"]))

C5_Witness ==
    /\ ~isActive["A"] /\ isActive["B"]
    /\ lockFile["B"] /\ ~lockFile["A"]
    /\ valKey["B"] = "real"
    /\ Quiescent

LexLess(a, b) ==
    \/ a.height < b.height
    \/ a.height = b.height /\ a.round < b.round
    \/ a.height = b.height /\ a.round = b.round /\ a.step < b.step

LexLeq(a, b) == a = b \/ LexLess(a, b)

C8_AntiRollback ==
    (lastCall.op = "SyncFromRemote" /\ lastCall.loadOk
        /\ LexLess(lastCall.remote, lastCall.local)) =>
        /\ lastCall.err = "behind"
        /\ diskState = lastCall.local

C8_Witness ==
    /\ lastCall.op = "SyncFromRemote"
    /\ lastCall.err = "behind"
    /\ lastCall.local = State(MaxHeight, 1, 3)
    /\ lastCall.remote = State(MaxHeight - 1, 0, 1)
    /\ diskState = lastCall.local

\* C9: CompareStates(local, remote) is true exactly when local is strictly
\* greater than remote in the lexicographic order.
C9_CompareStrict ==
    lastCall.op = "CompareStates" =>
        (lastCall.ret <=> LexLess(lastCall.remote, lastCall.local))

C9_Witness ==
    /\ lastCall.op = "CompareStates"
    /\ lastCall.ret
    /\ lastCall.local.height = lastCall.remote.height
    /\ lastCall.local.round = lastCall.remote.round

\* C10: a recording attempt (h, r, s') is accepted only if s' > s for every
\* record (h, r, s) in the ledger, and never at a height below the last
\* signed one.
C10_MonotoneLedger ==
    [][(lastAttempt' # lastAttempt
           /\ lastAttempt'.op = "RecordSignature"
           /\ lastAttempt'.err = "nil") =>
          /\ \A record \in signedRecords :
                (record.height = lastAttempt'.height
                    /\ record.round = lastAttempt'.round) =>
                    lastAttempt'.step > record.step
          /\ ~(lastAttempt'.height < lastSignedBlock)]_vars

\* C11: a CanSign call on a ledger holding the single record (h, r, s)
\* returns an error for (h, r, s) and for every height below h, and allows
\* (h, r, s') for every s' > s and every height above h; on an empty ledger
\* it allows every triple.
C11_CanSignCases ==
    [][(lastAttempt' # lastAttempt /\ lastAttempt'.op = "CanSign") =>
          LET q == lastAttempt'
              allowed == q.err = "nil"
          IN /\ signedRecords = {} => allowed
             /\ \A rec \in signedRecords :
                   signedRecords = {rec} =>
                       /\ (q.height = rec.height /\ q.round = rec.round
                              /\ q.step = rec.step) => ~allowed
                       /\ (q.height = rec.height /\ q.round = rec.round
                              /\ q.step > rec.step) => allowed
                       /\ q.height < rec.height => ~allowed
                       /\ q.height > rec.height => allowed]_vars

C11_Witness ==
    /\ signedRecords = {State(LedgerMaxHeight - 1, 0, 1)}
    /\ lastAttempt.op = "CanSign"
    /\ lastAttempt.height = LedgerMaxHeight - 1
    /\ lastAttempt.round = 0
    /\ lastAttempt.step = 2
    /\ lastAttempt.err = "nil"

C13_UnhealthyNotifyRefused ==
    [][\A n \in Nodes :
          (npc[n] = "fn_check" /\ npc'[n] # "fn_check"
              /\ ~isActive[n] /\ ~lastHealthy[n]) =>
              /\ npc'[n] = "idle"
              /\ reply'[n] # "200"
              /\ ~isActive'[n]
              /\ lockFile'[n] = lockFile[n]
              /\ valKey'[n] = valKey[n]]_vars

\* C14: when the takeover in the failover_notify handler fails (AcquireLock
\* or the validator restart), the handler answers with an error status, the
\* node does not hold the state lock afterwards and it stays Passive.
C14_TakeoverFailureReleases ==
    [][\A n \in Nodes :
          (npc'[n] = "idle"
              /\ \/ npc[n] = "fn_restart"
                 \/ npc[n] = "fn_check" /\ ~isActive[n] /\ lastHealthy[n]) =>
              /\ reply'[n] # "200"
              /\ ~lockFile'[n]
              /\ ~isActive'[n]]_vars

\* C15: failback with grace.  When a probe taken during the grace period of
\* a primary-site Passive node was not ok, the considerFailback goroutine of
\* that period ends without a failback (also when a later probe of the same
\* period was healthy again) and failbackInProgress is cleared.
C15_GraceCancelled ==
    [][\A n \in Nodes :
        (fpc[n] = "grace" /\ fpc'[n] # "grace" /\ probeFailedInGrace[n])
            => /\ fpc'[n] = "none"
               /\ ~failbackInProgress'[n]]_vars

\* C16: a POST to /validator_key, /failover_notify or /failback_notify whose
\* HMAC signature is invalid or whose timestamp is stale is rejected with 403
\* and changes nothing: the key file, the state lock and the role of the node
\* stay as they were.
Authentic(req) ==
    VerifyTimedSignature(<<"POST", req.path>>, req.signature, ClusterSecret,
                         req.timestamp, TimeoutMs, req.receivedAt)

C16_ForgedPostRejected ==
    [][(lastRequest' # NoRequest /\ ~Authentic(lastRequest'))
        => LET n == lastRequest'.node
           IN /\ reply'[n] \in {"none", "403"}
              /\ keyFile'[n] = keyFile[n]
              /\ lockFile'[n] = lockFile[n]
              /\ isActive'[n] = isActive[n]]_vars

\* C17: when the decryption of a received key payload fails (wrong secret,
\* tampered ciphertext) the import returns an error and leaves the key file
\* as it was; the key file is written only after the decryption and the
\* parsing of the key JSON have both succeeded.
C17_ImportAfterDecrypt ==
    [][LET i == lastImport'
           d == Decrypt(i.data, i.secret)
       IN i.op # "none" =>
            /\ d.err # "nil" => /\ i.err \notin {"nil", "panic"}
                                /\ kmKeyFile' = kmKeyFile
            /\ kmKeyFile' # kmKeyFile => /\ d.err = "nil"
                                         /\ Unmarshals(d.plain)]_vars

\* C18: safety over liveness.  Whatever fails in initiateFailover or in the
\* failback_notify handler (DeleteKey, the restart), the node that gives up
\* its duties ends unable to sign: when it becomes Passive its key file does
\* not hold the real key and no validator runs on the real key.
C18_ReleaseEndsNonSigning ==
    [][\A n \in Nodes :
        (\/ hpc[n] = "fo_wait" /\ hpc'[n] # "fo_wait"
         \/ npc[n] = "bn_set" /\ npc'[n] # "bn_set")
            => /\ ~isActive'[n]
               /\ keyFile'[n] # "real"
               /\ valKey'[n] # "real"]_vars

\* C19: in initiateFailover the sender has swapped its real key for the mock
\* key before it sends failover_notify and before it sets its role to
\* Passive: failover_notify is never sent while the sender's key file holds
\* the real key, and the sender is still Active when it sends it.
C19_DeactivateBeforeNotify ==
    [][\A n \in Nodes :
        /\ (hpc[n] = "fo_notify" /\ hpc'[n] # "fo_notify")
                => keyFile[n] = "mock" /\ isActive[n]
        /\ (hpc[n] \in FailoverLocked /\ isActive[n] /\ ~isActive'[n])
                => keyFile[n] = "mock"]_vars

\* C20: within one node the release of the state lock, the swap to the mock
\* key and the restart of the validator are complete before the node answers
\* 200 to failback_notify and before initiateFailover sets the role to
\* Passive: at that moment the node holds neither the lock nor the real key.
C20_ReleasedBeforeOK ==
    [][\A n \in Nodes :
        (\/ /\ npc[n] \in {"bn_check", "bn_set"}
            /\ npc'[n] = "idle"
            /\ reply'[n] = "200"
         \/ /\ hpc[n] \in FailoverLocked
            /\ isActive[n] /\ ~isActive'[n])
            => /\ ~lockFile'[n]
               /\ keyFile'[n] = "mock"
               /\ valKey'[n] # "real"]_vars

\* C21: for any key file content, DeleteKey() followed by RestoreKey() (both
\* returning nil) leaves the key file with the content it had before
\* DeleteKey, and no .real sidecar remains.
C21_DeleteRestoreRoundTrip ==
    (/\ lastKeyCall.op = "RestoreKey" /\ lastKeyCall.err = "nil"
     /\ prevKeyCall.op = "DeleteKey" /\ prevKeyCall.err = "nil")
        => /\ swapKeyFile = prevKeyCall.before
           /\ swapRealKeyFile = "none"

\* The round trip on a key file that is not JSON.
C21_Witness ==
    /\ lastKeyCall.op = "RestoreKey" /\ lastKeyCall.err = "nil"
    /\ prevKeyCall.op = "DeleteKey" /\ prevKeyCall.err = "nil"
    /\ prevKeyCall.before = "junk"
    /\ swapKeyFile = "junk"

\* C22: shutdown is idempotent and releases the lock.  Stop() never fails,
\* also when it is called again, and once Stop() has been called the node
\* does not hold the state lock.
C22_StopIdempotent ==
    /\ \A n \in Nodes :
        /\ lastStop[n] # "panic"
        /\ lastStop[n] # "none" => ~lockFile[n]
    /\ lastDspStop # "panic"

\* C23: after a health probe IsHealthy() is true if and only if /status and
\* /net_info both answered 200 with a body that parsed, catching_up is false
\* and n_peers is at least the configured minimum (a minimum of 0 counting
\* as 1); PerformHealthCheck itself returns no error.
Answered(resp, codes) ==
    resp.kind = "http" /\ resp.status \in codes /\ resp.json

C24_ConflictAbortsFailback ==
    [][\A n \in Nodes :
        (fpc[n] \in {"fb_lock", "fb_sync"} /\ fpc'[n] = "none")
            => /\ ~isActive'[n]
               /\ ~lockFile'[n]
               /\ ~failbackInProgress'[n]]_vars

\* C25: a node has at most one considerFailback goroutine in flight, and
\* failbackInProgress is set exactly while that goroutine runs: the health
\* loop sets it before the spawn and spawns only when it is clear, and every
\* exit of the goroutine clears it.
C25_FlagIffTaskInFlight ==
    \A n \in Nodes : failbackInProgress[n] <=> (fpc[n] # "none")

\* A failback goroutine past its grace period while the health loop of the
\* same node has just finished another healthy probe without spawning.
C25_Witness ==
    \E n \in Nodes :
        /\ failbackInProgress[n]
        /\ fpc[n] \in FailbackLocked
        /\ hpc[n] = "idle"
        /\ lastHealthy[n]
        /\ ~isActive[n]

\* C26: the failover_notify and failback_notify handlers run under fm.mu
\* from their role check to their last step, so no handler is between its
\* role check and its SetActive while initiateFailover or initiateFailback
\* runs on the same node.
C26_HandlersExcludeTransitions ==
    \A n \in Nodes :
        npc[n] \in {"fn_restart", "fn_set", "bn_delete", "bn_restart",
                    "bn_release", "bn_set"}
            => ~MuHeld(n)

\* C27: when Start() has returned and no goroutine has taken a step yet, a
\* node configured active holds the state lock and a node configured
\* passive does not.
C27_BootLock ==
    (/\ isActive = [n \in Nodes |-> BootActive(n)]
     /\ failureCount = [n \in Nodes |-> 0]
     /\ lastHealthy = [n \in Nodes |-> FALSE]
     /\ hpc = [n \in Nodes |-> "idle"]
     /\ fpc = [n \in Nodes |-> "none"]
     /\ npc = [n \in Nodes |-> "idle"]
     /\ spc = [n \in Nodes |-> "idle"]
     /\ faults = 0)
        => \A n \in Nodes : lockFile[n] <=> BootActive(n)

\* C28: the state-sync loop saves the peer's state into the local state
\* file only while the node is Passive; a tick that began while the node
\* was Passive does not save once the role has become Active.
C28_NoSyncWriteWhileActive ==
    [][\A n \in Nodes :
        (/\ spc[n] = "sync"
         /\ spc'[n] = "idle"
         /\ stateFile'[n] # stateFile[n])
            => ~isActive[n]]_vars

\* C29: a node that is not the primary site never runs considerFailback or
\* initiateFailback, and its role goes from Passive to Active only in the
\* SetActive(true) step of its failover_notify handler.
C29_OnlyPrimaryFailsBack ==
    [][\A n \in Nodes :
        ~isPrimarySite(n)
            => /\ fpc[n] = "none" /\ fpc'[n] = "none"
               /\ (~isActive[n] /\ isActive'[n])
                     => (npc[n] = "fn_set" /\ npc'[n] = "idle")]_vars

\* The secondary site is Active after a failover while the primary site is
\* inside initiateFailback.
C29_Witness ==
    \E n \in Nodes :
        /\ ~isPrimarySite(n)
        /\ isActive[n]
        /\ ~BootActive(n)
        /\ fpc[Peer(n)] \in FailbackLocked
        /\ isPrimarySite(Peer(n))

\* C30: VerifyTimedSignature returns false whenever the receiver's clock and
\* the timestamp differ by more than the window, whether the timestamp lies
\* in the past or in the future, and otherwise returns what Verify returns
\* for data plus timestamp.
C30_ReplayWindow ==
    lastVerify.called =>
        LET skew == IF lastVerify.now >= lastVerify.timestamp
                    THEN lastVerify.now - lastVerify.timestamp
                    ELSE lastVerify.timestamp - lastVerify.now
        IN lastVerify.ret =
              IF skew * 1000 > TimeoutMs
              THEN FALSE
              ELSE Verify(<<lastVerify.data, lastVerify.timestamp>>,
                          lastVerify.signature, lastVerify.secret)

\* No Restart is half done and every monitor goroutine has either finished
\* or waits for a child that is alive.
BinaryQuiescent ==
    /\ ~bmPanic
    /\ rpc = "idle"
    /\ \A c \in Children :
          \/ mon[c].pc \in {"none", "done"}
          \/ mon[c].pc = "wait" /\ proc[mon[c].cmd] = "alive"

\* C31: once every exit has been noticed, IsRunning() is true exactly when a
\* child started by Start() has not exited; the watcher of an earlier child
\* does not mark a later, running child as not running.
C31_IsRunningExact ==
    BinaryQuiescent => (IsRunning <=> \E c \in Children : proc[c] = "alive")

\* C39: at most one child process started by the BinaryManager is alive at
\* any time; Start spawns no second child while an earlier one still runs.
C39_SingleChild ==
    Cardinality({c \in Children : proc[c] = "alive"}) <= 1

\* C32: ReleaseLock on a Manager that holds no lock returns nil and changes
\* neither a lock file nor any Manager's lockFile; a lock file created by
\* another holder stays.
C32_ReleaseIdempotent ==
    [][(lastLockCall'.op = "ReleaseLock" /\ ~lastLockCall'.holder)
          => /\ lastLockCall'.err = "nil"
             /\ lockPathExists' = lockPathExists
             /\ mLockFile' = mLockFile]_vars

\* A ReleaseLock by a Manager that holds nothing, on a path locked by
\* another Manager, has returned and the lock is still there.
C32_Witness ==
    /\ lastLockCall.op = "ReleaseLock"
    /\ ~lastLockCall.holder
    /\ lastLockCall.existed
    /\ lockPathExists[statePath(lastLockCall.mgr)]
    /\ \E m \in Managers :
          /\ m # lastLockCall.mgr
          /\ statePath(m) = statePath(lastLockCall.mgr)
          /\ mLockFile[m]

\* C33: at every quiescent point at most one of the two nodes has role
\* Active, also when a failover_notify or failback_notify was lost or
\* answered with an error.
C33_NoSplitBrain ==
    Quiescent => ~(isActive["A"] /\ isActive["B"])

\* C34: at every quiescent point a node holds its state-file lock if and
\* only if its role is Active.
C34_LockIffActive ==
    Quiescent => \A n \in Nodes : lockFile[n] <=> isActive[n]

\* C35: a SyncFromRemote call never makes the (height, round, step) in the
\* state file smaller, also when the state-sync loop and initiateFailback
\* call it at the same time with different remote states.
C35_SyncNeverDecreases ==
    [][LexLeq(raceFile, raceFile')]_vars

\* C36: in every reachable state at least one node stores the real validator
\* key in its key file or in its .real sidecar; a DeleteKey on a key file
\* that holds the mock key does not replace a sidecar holding the real key.
C36_RealKeyNeverLost ==
    \E n \in Nodes : keyFile[n] = "real" \/ realKeyFile[n] = "real"

\* C37: a Passive node whose state file is behind its reachable peer's
\* eventually holds the peer's state (or stops being Passive), also when it
\* booted Active and became Passive later.
C37_PassiveEventuallySyncs ==
    \A n \in Nodes :
        (~isActive[n] /\ LexLess(stateFile[n], stateFile[Peer(n)]))
            ~> (isActive[n] \/ ~LexLess(stateFile[n], stateFile[Peer(n)]))

\* C38: every initiateFailover, initiateFailback and notify handler that has
\* started comes to an end and gives up fm.mu, also when the peer never
\* answers; a health loop waiting for fm.mu gets it.
C38_TransitionsTerminate ==
    \A n \in Nodes :
        /\ (hpc[n] \in FailoverLocked) ~> (hpc[n] \notin FailoverLocked)
        /\ (fpc[n] \in FailbackLocked) ~> (fpc[n] \notin FailbackLocked)
        /\ (npc[n] # "idle") ~> (npc[n] = "idle")
        /\ (hpc[n] \in {"success", "failure"}) ~> (hpc[n] = "idle")

\* C40: a failover_notify handled by a node that is Active, and a
\* failback_notify handled by a node that is Passive, are answered with 200
\* and leave the node's role, state lock, key file, sidecar and validator
\* process as they were.
C40_NotifyNoOp ==
    [][\A n \in Nodes :
        (\/ npc[n] = "fn_check" /\ npc'[n] # "fn_check" /\ isActive[n]
         \/ npc[n] = "bn_check" /\ npc'[n] # "bn_check" /\ ~isActive[n])
            => /\ npc'[n] = "idle"
               /\ reply'[n] = "200"
               /\ isActive'[n] = isActive[n]
               /\ lockFile'[n] = lockFile[n]
               /\ keyFile'[n] = keyFile[n]
               /\ realKeyFile'[n] = realKeyFile[n]
               /\ valKey'[n] = valKey[n]]_vars

\* A failback_notify has been answered with 200 by a node that is Passive
\* and has never swapped its key.
C40_Witness ==
    \E n \in Nodes :
        /\ lastRequest.node = n
        /\ lastRequest.path = "/failback_notify"
        /\ npc[n] = "idle"
        /\ reply[n] = "200"
        /\ ~isActive[n]
        /\ ~lockFile[n]
        /\ realKeyFile[n] = "none"

====
